---- MODULE Spec2Model ----
(***************************************************************************)
(* Model of alexnthnz/url-shortener: the shortening engine (URLService,    *)
(* URLHandler), the PostgreSQL store (URLRepository, AnalyticsRepository,  *)
(* the schema of RunMigrations), the Redis cache, the asynchronous         *)
(* analytics pipeline (AnalyticsService) and the rate limiter              *)
(* (RateLimitMiddleware).                                                  *)
(*                                                                         *)
(* Strings are sequences of one-character strings, so that encoding,       *)
(* parsing and validation are computed character by character as the Go    *)
(* code computes them.                                                     *)
(***************************************************************************)
EXTENDS Integers, Sequences, FiniteSets, TLC

VARIABLES
    seq,        \* last value issued by url_id_sequence (database.go:56)
    urls,       \* rows of table urls (database.go:34-41)
    clicks,     \* rows of table analytics, in insertion order (database.go:44-51)
    cache,      \* Redis: key -> [val, exp], shared by URL entries and rate-limit counters
    now,        \* wall clock, in seconds
    reqs,       \* one record per request goroutine: position and locals
    eventQueue, \* AnalyticsService.eventQueue, a buffered channel
    batch,      \* the local slice `batch` of processEvents
    issued,     \* history: every value nextval has returned, in order
    rl          \* history of rate-limiter decisions per client identity

vars == <<seq, urls, clicks, cache, now, reqs, eventQueue, batch, issued, rl>>

(***************************************************************************)
(* Bounds of the exploration.                                              *)
(***************************************************************************)
NumProcs == 2      \* concurrent request goroutines
MaxAlloc == 2      \* values drawn from the sequence in one exploration
QueueCap == 2      \* capacity of eventQueue (10000 in the code), scaled
batchSize == 2      \* AnalyticsService.batchSize (100 in the code), scaled
MaxClicks == 2     \* rows of table analytics explored
MaxTime == 90      \* the clock is explored up to this second
TickStep == 15     \* seconds between two observations of the clock
MaxNum == 250000   \* encodeBase62 is explored on 0..MaxNum and on the test values

Procs == 1..NumProcs

(***************************************************************************)
(* Characters and strings.                                                 *)
(***************************************************************************)
Lower == <<"a","b","c","d","e","f","g","h","i","j","k","l","m",
           "n","o","p","q","r","s","t","u","v","w","x","y","z">>
Upper == <<"A","B","C","D","E","F","G","H","I","J","K","L","M",
           "N","O","P","Q","R","S","T","U","V","W","X","Y","Z">>
Digits == <<"0","1","2","3","4","5","6","7","8","9">>

base62Chars == Digits \o Lower \o Upper

Range(s) == {s[i] : i \in 1..Len(s)}

IsLetter(c) == c \in Range(Lower) \cup Range(Upper)
IsDigit(c) == c \in Range(Digits)

\* strings.ToLower, one character / whole string
ToLowerCh(c) ==
    IF c \in Range(Upper)
    THEN Lower[CHOOSE i \in 1..26 : Upper[i] = c]
    ELSE c

ToLower(s) == [i \in 1..Len(s) |-> ToLowerCh(s[i])]

\* strings.HasPrefix, strings.HasSuffix, strings.Contains, strings.Index
HasPrefix(s, p) == Len(s) >= Len(p) /\ SubSeq(s, 1, Len(p)) = p
HasSuffix(s, p) == Len(s) >= Len(p) /\ SubSeq(s, Len(s) - Len(p) + 1, Len(s)) = p
Occurs(s, p) == {i \in 1..(Len(s) - Len(p) + 1) : SubSeq(s, i, i + Len(p) - 1) = p}
Contains(s, p) == Occurs(s, p) # {}
\* 1-based index of the first occurrence, 0 when there is none
Index(s, p) == IF Contains(s, p) THEN CHOOSE i \in Occurs(s, p) : \A j \in Occurs(s, p) : i <= j ELSE 0
TrimSuffix(s, p) == IF HasSuffix(s, p) THEN SubSeq(s, 1, Len(s) - Len(p)) ELSE s

(***************************************************************************)
(* String literals used by the code and by the explored inputs.            *)
(***************************************************************************)
EmptyStr == <<>>
Http == <<"h","t","t","p">>
Https == <<"h","t","t","p","s">>
SchemeSep == <<":","/","/">>

\* error texts are sequences of words, so that the handlers' strings.Contains
\* tests are computed on the text the service actually built
NoErr == <<>>
ErrInvalidURL == <<"invalid", "URL", ":">>
ErrInvalidAlias == <<"invalid", "custom", "alias", ":">>
ErrCheckAlias == <<"failed", "to", "check", "alias", "existence", ":">>
ErrAliasExists == <<"custom", "alias", "already", "exists">>
ErrNextID == <<"failed", "to", "get", "next", "ID", ":">>
ErrCreate == <<"failed", "to", "create", "URL", ":">>
ErrGetURL == <<"failed", "to", "get", "URL", ":">>
ErrNotFound == <<"URL", "not", "found">>
ErrGetStats == <<"failed", "to", "get", "URL", "stats", ":">>
\* texts produced by the PostgreSQL driver
PqUnique == <<"pq", ":", "duplicate", "key", "value", "violates", "unique", "constraint", "urls_short_code_key">>
PqTooLong == <<"pq", ":", "value", "too", "long", "for", "type", "character", "varying", "(", "10", ")">>
PqDown == <<"dial", "tcp", ":", "connection", "refused">>

(***************************************************************************)
(* URLService.encodeBase62                                                 *)
(***************************************************************************)
RECURSIVE Reverse(_)
Reverse(s) == IF s = <<>> THEN <<>> ELSE Reverse(Tail(s)) \o <<Head(s)>>

\* the loop `for num > 0`: least-significant digit first
RECURSIVE encodeDigits(_)
encodeDigits(num) ==
    IF num > 0
    THEN <<base62Chars[(num % 62) + 1]>> \o encodeDigits(num \div 62)
    ELSE <<>>

\* an encoding that leaves out the reversal: least-significant digit first
encodeBase62Unreversed(num) ==
    IF num = 0 THEN <<base62Chars[1]>> ELSE encodeDigits(num)

encodeBase62(num) ==
    IF num = 0 THEN <<base62Chars[1]>> ELSE Reverse(encodeDigits(num))

(***************************************************************************)
(* URLService.validateCustomAlias                                          *)
(***************************************************************************)
Str_api == <<"a","p","i">>
Str_health == <<"h","e","a","l","t","h">>
Str_admin == <<"a","d","m","i","n">>
Str_www == <<"w","w","w">>
Str_app == <<"a","p","p">>
Str_short == <<"s","h","o","r","t">>
Str_url == <<"u","r","l">>

reserved == {Str_api, Str_health, Str_admin, Str_www, Str_app, Str_short, Str_url}

\* regexp ^[a-zA-Z0-9_-]+$
aliasPattern(alias) ==
    /\ Len(alias) >= 1
    /\ \A i \in 1..Len(alias) : alias[i] \in Range(base62Chars) \cup {"_", "-"}

\* a validation that compares the alias with the reserved words as written
validateCustomAliasCaseSensitive(alias) ==
    IF Len(alias) < 3 \/ Len(alias) > 20
    THEN <<"custom", "alias", "must", "be", "between", "3", "and", "20", "characters">>
    ELSE IF ~aliasPattern(alias)
    THEN <<"custom", "alias", "can", "only", "contain", "letters">>
    ELSE IF alias \in reserved
    THEN <<"custom", "alias", "cannot", "be", "a", "reserved", "word">>
    ELSE NoErr

\* returns the error text, NoErr for nil
validateCustomAlias(alias) ==
    IF Len(alias) < 3 \/ Len(alias) > 20
    THEN <<"custom", "alias", "must", "be", "between", "3", "and", "20", "characters">>
    ELSE IF ~aliasPattern(alias)
    THEN <<"custom", "alias", "can", "only", "contain", "letters">>
    ELSE IF ToLower(alias) \in reserved
    THEN <<"custom", "alias", "cannot", "be", "a", "reserved", "word">>
    ELSE NoErr

(***************************************************************************)
(* net/url.Parse and URL.String, for raw URLs without query, fragment,     *)
(* userinfo, escapes or control characters.                                *)
(***************************************************************************)
RECURSIVE getSchemeAt(_, _)
getSchemeAt(s, i) ==
    IF i > Len(s) THEN [err |-> FALSE, scheme |-> EmptyStr, rest |-> s]
    ELSE IF IsLetter(s[i]) THEN getSchemeAt(s, i + 1)
    ELSE IF IsDigit(s[i]) \/ s[i] \in {"+", "-", "."}
    THEN IF i = 1 THEN [err |-> FALSE, scheme |-> EmptyStr, rest |-> s]
         ELSE getSchemeAt(s, i + 1)
    ELSE IF s[i] = ":"
    THEN IF i = 1 THEN [err |-> TRUE, scheme |-> EmptyStr, rest |-> s]
         ELSE [err |-> FALSE, scheme |-> SubSeq(s, 1, i - 1), rest |-> SubSeq(s, i + 1, Len(s))]
    ELSE [err |-> FALSE, scheme |-> EmptyStr, rest |-> s]

getScheme(s) == getSchemeAt(s, 1)

\* the text before the first "/"
FirstSegment(s) == IF Contains(s, <<"/">>) THEN SubSeq(s, 1, Index(s, <<"/">>) - 1) ELSE s

\* a host may carry a port, which must be decimal
validHost(h) ==
    \A i \in 1..Len(h) : h[i] = ":" =>
        \A j \in (i + 1)..Len(h) : IsDigit(h[j])

ParseError == [err |-> TRUE, Scheme |-> EmptyStr, Opaque |-> EmptyStr, Host |-> EmptyStr,
               Path |-> EmptyStr, OmitHost |-> FALSE]

Parse(rawURL) ==
    LET g == getScheme(rawURL)
        scheme == ToLower(g.scheme)
        rest == g.rest
        authEnd == Index(SubSeq(rest, 3, Len(rest)), <<"/">>)
        authority == IF authEnd = 0 THEN SubSeq(rest, 3, Len(rest))
                     ELSE SubSeq(rest, 3, authEnd + 1)
        afterAuth == IF authEnd = 0 THEN EmptyStr ELSE SubSeq(rest, authEnd + 2, Len(rest))
    IN  IF g.err THEN ParseError
        ELSE IF ~HasPrefix(rest, <<"/">>) /\ scheme # EmptyStr
        THEN [err |-> FALSE, Scheme |-> scheme, Opaque |-> rest, Host |-> EmptyStr,
              Path |-> EmptyStr, OmitHost |-> FALSE]
        ELSE IF ~HasPrefix(rest, <<"/">>) /\ Contains(FirstSegment(rest), <<":">>)
        THEN ParseError
        ELSE IF HasPrefix(rest, <<"/", "/">>)
                /\ (scheme # EmptyStr \/ ~HasPrefix(rest, <<"/", "/", "/">>))
        THEN IF validHost(authority)
             THEN [err |-> FALSE, Scheme |-> scheme, Opaque |-> EmptyStr, Host |-> authority,
                   Path |-> afterAuth, OmitHost |-> FALSE]
             ELSE ParseError
        ELSE [err |-> FALSE, Scheme |-> scheme, Opaque |-> EmptyStr, Host |-> EmptyStr,
              Path |-> rest, OmitHost |-> (scheme # EmptyStr /\ HasPrefix(rest, <<"/">>))]

URLString(u) ==
    (IF u.Scheme # EmptyStr THEN u.Scheme \o <<":">> ELSE EmptyStr)
    \o (IF u.Opaque # EmptyStr THEN u.Opaque
        ELSE (IF (u.Scheme # EmptyStr \/ u.Host # EmptyStr)
                 /\ ~(u.OmitHost /\ u.Host = EmptyStr)
                 /\ (u.Host # EmptyStr \/ u.Path # EmptyStr)
              THEN <<"/", "/">> \o u.Host ELSE EmptyStr)
             \o (IF u.Path # EmptyStr /\ u.Path[1] # "/" /\ u.Host # EmptyStr
                 THEN <<"/">> ELSE EmptyStr)
             \o u.Path)

(***************************************************************************)
(* URLService.validateURL, URLService.normalizeURL                         *)
(***************************************************************************)
maliciousPatterns ==
    { <<"j","a","v","a","s","c","r","i","p","t",":">>,
      <<"d","a","t","a",":">>,
      <<"f","i","l","e",":">>,
      <<"f","t","p",":">> }

\* a validation that looks at scheme and host only
validateURLSchemeOnly(rawURL) ==
    LET parsedURL == Parse(rawURL)
    IN  IF parsedURL.err THEN <<"malformed", "URL">>
        ELSE IF parsedURL.Scheme # Http /\ parsedURL.Scheme # Https
        THEN <<"only", "HTTP", "and", "HTTPS", "URLs", "are", "allowed">>
        ELSE IF parsedURL.Host = EmptyStr
        THEN <<"URL", "must", "have", "a", "valid", "host">>
        ELSE NoErr

\* returns the error text, NoErr for nil
validateURL(rawURL) ==
    LET parsedURL == Parse(rawURL)
    IN  IF parsedURL.err THEN <<"malformed", "URL">>
        ELSE IF parsedURL.Scheme # Http /\ parsedURL.Scheme # Https
        THEN <<"only", "HTTP", "and", "HTTPS", "URLs", "are", "allowed">>
        ELSE IF parsedURL.Host = EmptyStr
        THEN <<"URL", "must", "have", "a", "valid", "host">>
        ELSE IF \E pattern \in maliciousPatterns : Contains(ToLower(rawURL), pattern)
        THEN <<"potentially", "malicious", "URL", "detected">>
        ELSE NoErr

normalizeURL(rawURL) ==
    LET parsedURL == Parse(rawURL)
        withScheme == IF parsedURL.Scheme = EmptyStr
                      THEN [parsedURL EXCEPT !.Scheme = Https]
                      ELSE parsedURL
    IN  URLString([withScheme EXCEPT !.Path = TrimSuffix(withScheme.Path, <<"/">>)])

(***************************************************************************)
(* Explored inputs.                                                        *)
(***************************************************************************)
URL_A_slash == Https \o SchemeSep \o <<"a", "/">>      \* "https://a/"
URL_A == Https \o SchemeSep \o <<"a">>                  \* "https://a"
URL_B == Http \o SchemeSep \o <<"b">>                   \* "http://b"
URL_ftp == <<"f","t","p">> \o SchemeSep \o <<"a">>      \* "ftp://a"

Alias_100 == <<"1","0","0">>
NoAlias == EmptyStr

\* the (url, custom_alias) bodies of the explored POST /api/v1/shorten requests
ShortenInputs ==
    { <<URL_A_slash, Alias_100>>, <<URL_B, NoAlias>>, <<URL_A_slash, Str_api>>, <<URL_ftp, NoAlias>> }

\* the codes of the explored GET /:short_code requests
LookupCodes == {Alias_100}

IP_1 == <<"1",".","2",".","3",".","4">>
IP_garbage == <<"x">>
IP_2 == <<"5",".","6",".","7",".","8">>
Str_unknown == <<"u","n","k","n","o","w","n">>
UA_curl == <<"c","u","r","l">>

\* raw URLs put together from a scheme, a separator, a host and a path
URL_example == <<"e","x","a","m","p","l","e",".","c","o","m">>      \* "example.com"
URL_https_example == Https \o SchemeSep \o URL_example              \* "https://example.com"

URLSchemes ==
    { EmptyStr, Http, Https, <<"H","T","T","P">>, <<"f","t","p">>, <<"d","a","t","a">>,
      <<"f","i","l","e">>, <<"j","a","v","a","s","c","r","i","p","t">> }
URLSeps == { EmptyStr, <<":">>, SchemeSep }
URLHosts == { EmptyStr, <<"a">>, <<"a",":","8","0">>, <<"a",":","x">> }
URLPaths == { EmptyStr, <<"/">>, <<"/","p">>, <<"/","d","a","t","a",":","x">> }

ValidationURLs ==
    { sc \o sep \o h \o pa : sc \in URLSchemes, sep \in URLSeps, h \in URLHosts, pa \in URLPaths }
        \cup { URL_example, URL_https_example }

\* custom aliases: a stem, padded up to the length limits
AliasStems ==
    { EmptyStr, <<"a">>, <<"a","b">>, <<"a","b","c">>, <<"a","_","b">>, <<"a","-","b">>,
      <<"a"," ","b">>, <<"a","@","b">>, <<"a",".","b">>, <<"A","P","I">>, <<"A","p","i">>,
      Str_api, Str_health, <<"A","d","m","i","n">>, Str_admin, Str_www, Str_app, Str_short,
      Str_url, <<"U","R","L">>, <<"u","r","l","s">>, Alias_100 }
AliasPads == { [i \in 1..n |-> "x"] : n \in {0, 17, 18} }

ValidationAliases == { st \o pad : st \in AliasStems, pad \in AliasPads }

\* the (url, custom_alias) bodies handed to validation
ValidationInputs ==
    { <<u, NoAlias>> : u \in ValidationURLs }
        \cup { <<URL_https_example, a>> : a \in ValidationAliases }

\* values of url_id_sequence the service may find when it starts: a fresh
\* database, and one whose sequence has already issued 62*62-1 values
InitialSeqValues == {0, 62 * 62 - 1}

(***************************************************************************)
(* The store: tables urls and analytics, and url_id_sequence.              *)
(***************************************************************************)
\* width of column urls.short_code, VARCHAR(10)
ShortCodeWidth == 10

\* an id computed from the rows present instead of an atomic sequence
GetNextIDFromCount(lastValue, rows) == Cardinality(rows) + 1

\* nextval('url_id_sequence'): the value returned, which is also the new last value
GetNextID(lastValue, rows) == lastValue + 1

\* a table without the UNIQUE constraint
UniqueViolationOff(rows, code) == FALSE

\* the UNIQUE constraint on urls.short_code
UniqueViolation(rows, code) == \E r \in rows : r.short_code = code

\* URLRepository.Create: the driver's error text, NoErr when the row is inserted
CreateErr(rows, code, dbOk) ==
    IF ~dbOk THEN PqDown
    ELSE IF Len(code) > ShortCodeWidth THEN PqTooLong
    ELSE IF UniqueViolation(rows, code) THEN PqUnique
    ELSE NoErr

\* URLRepository.Exists
Exists(rows, code) == \E r \in rows : r.short_code = code

\* URLRepository.GetByShortCode: the set of matching rows (empty for sql.ErrNoRows)
GetByShortCode(rows, code) == {r \in rows : r.short_code = code}

(***************************************************************************)
(* The cache: RedisCache.Get / Set / SetWithTTL.                           *)
(***************************************************************************)
\* RedisCache.ttl, 24 hours in seconds
CacheTTL == 86400

CachePut(c, key, value, ttl) ==
    [k \in DOMAIN c \cup {key} |-> IF k = key THEN [val |-> value, exp |-> now + ttl] ELSE c[k]]

CacheDrop(c, keys) == [k \in DOMAIN c \ keys |-> c[k]]

(***************************************************************************)
(* Requests.                                                               *)
(***************************************************************************)
NoReq == [kind |-> "none", pc |-> "idle", client |-> EmptyStr, xff |-> EmptyStr,
          rawURL |-> EmptyStr, alias |-> EmptyStr, shortCode |-> EmptyStr,
          url |-> EmptyStr, isCustom |-> FALSE, nextID |-> 0,
          err |-> NoErr, status |-> 0, location |-> EmptyStr,
          cacheGetErr |-> FALSE, cacheSetErr |-> FALSE, hit |-> FALSE, storeRead |-> FALSE,
          captured |-> FALSE, dropped |-> FALSE, count |-> 0, idx |-> 0,
          createdAt |-> -1, clickCount |-> 0]

Free(p) == reqs[p].pc \in {"idle", "done"}

Init ==
    /\ seq \in InitialSeqValues
    /\ urls = {}
    /\ clicks = <<>>
    /\ cache = <<>>
    /\ now = 0
    /\ reqs = [p \in Procs |-> NoReq]
    /\ eventQueue = <<>>
    /\ batch = <<>>
    /\ issued = <<>>
    /\ rl = <<>>

(***************************************************************************)
(* POST /api/v1/shorten: URLHandler.ShortenURL and URLService.ShortenURL.  *)
(***************************************************************************)
\* binding:"required,url" of models.ShortenRequest
BindOK(rawURL) ==
    LET u == Parse(ToLower(rawURL))
    IN  /\ rawURL # EmptyStr
        /\ ~u.err
        /\ u.Scheme # EmptyStr
        /\ ~(u.Host = EmptyStr /\ u.Opaque = EmptyStr)

\* the status URLHandler.ShortenURL answers for the service's error
ShortenStatus(err) ==
    IF err = NoErr THEN 201
    ELSE IF \/ Contains(err, <<"invalid", "URL">>)
            \/ Contains(err, <<"invalid", "custom", "alias">>)
            \/ Contains(err, <<"already", "exists">>)
    THEN 400
    ELSE 500

\* the locals of a handler die when it returns; its answer is kept
Return(r, e, st) ==
    [r EXCEPT !.pc = "done", !.err = e, !.status = st,
              !.rawURL = EmptyStr, !.alias = EmptyStr, !.xff = EmptyStr, !.nextID = 0,
              !.count = 0]

Fail(r, e, st) == Return(r, e, st)

\* bind, validateURL, normalizeURL, validateCustomAlias: the request as it
\* stands when ShortenURL first turns to the store, or its answer when it
\* returns before that
ShortenEntry(rawURL, alias) ==
    LET r == [NoReq EXCEPT !.kind = "shorten", !.rawURL = rawURL, !.alias = alias]
        verr == validateURL(rawURL)
        aerr == validateCustomAlias(alias)
    IN  IF ~BindOK(rawURL) THEN Fail(r, NoErr, 400)
        ELSE IF verr # NoErr
        THEN Fail(r, ErrInvalidURL \o verr, ShortenStatus(ErrInvalidURL \o verr))
        ELSE IF alias # EmptyStr /\ aerr # NoErr
        THEN Fail(r, ErrInvalidAlias \o aerr, ShortenStatus(ErrInvalidAlias \o aerr))
        ELSE [r EXCEPT !.url = normalizeURL(rawURL),
                       !.pc = IF alias # EmptyStr THEN "exists" ELSE "nextid"]

\* a POST /api/v1/shorten whose body has been read and is about to be bound
Received(rawURL, alias) ==
    [NoReq EXCEPT !.kind = "shorten", !.pc = "bind", !.rawURL = rawURL, !.alias = alias]

\* ShouldBindJSON, validateURL, normalizeURL and validateCustomAlias on a
\* received request
ShortenValidate(p) ==
    /\ reqs[p].pc = "bind"
    /\ reqs' = [reqs EXCEPT ![p] = ShortenEntry(reqs[p].rawURL, reqs[p].alias)]
    /\ UNCHANGED <<seq, urls, clicks, cache, now, eventQueue, batch, issued, rl>>

\* a value about to be handed to encodeBase62
EncodeInput(num) == [NoReq EXCEPT !.kind = "encode", !.pc = "call", !.nextID = num]

\* result := service.encodeBase62(tc.input)
EncodeCall(p) ==
    /\ reqs[p].pc = "call"
    /\ reqs[p].kind = "encode"
    /\ reqs' = [reqs EXCEPT ![p] =
           [reqs[p] EXCEPT !.shortCode = encodeBase62(reqs[p].nextID), !.pc = "done"]]
    /\ UNCHANGED <<seq, urls, clicks, cache, now, eventQueue, batch, issued, rl>>

\* ShortenEntry on the explored inputs, computed once
ShortenEntries == [in \in ShortenInputs |-> ShortenEntry(in[1], in[2])]

\* a ShortenURL that draws its sequence value before it validates
ShortenStartAllocFirst(p, rawURL, alias) ==
    /\ Free(p)
    /\ seq' = GetNextID(seq, urls)
    /\ issued' = Append(issued, GetNextID(seq, urls))
    /\ reqs' = [reqs EXCEPT ![p] = ShortenEntries[<<rawURL, alias>>]]
    /\ UNCHANGED <<urls, clicks, cache, now, eventQueue, batch, rl>>

ShortenStart(p, rawURL, alias) ==
    /\ Free(p)
    /\ reqs' = [reqs EXCEPT ![p] = ShortenEntries[<<rawURL, alias>>]]
    /\ UNCHANGED <<seq, urls, clicks, cache, now, eventQueue, batch, issued, rl>>

\* s.urlRepo.Exists(customAlias)
ShortenExists(p) ==
    /\ reqs[p].pc = "exists"
    /\ \E dbOk \in BOOLEAN :
        LET r == reqs[p]
        IN  reqs' = [reqs EXCEPT ![p] =
                IF ~dbOk THEN Fail(r, ErrCheckAlias \o PqDown, ShortenStatus(ErrCheckAlias \o PqDown))
                ELSE IF Exists(urls, r.alias)
                THEN Fail(r, ErrAliasExists, ShortenStatus(ErrAliasExists))
                ELSE [r EXCEPT !.shortCode = r.alias, !.isCustom = TRUE, !.pc = "create"]]
    /\ UNCHANGED <<seq, urls, clicks, cache, now, eventQueue, batch, issued, rl>>

\* s.urlRepo.GetNextID() and encodeBase62
ShortenNextID(p) ==
    /\ reqs[p].pc = "nextid"
    /\ \E dbOk \in BOOLEAN :
        LET r == reqs[p]
            id == GetNextID(seq, urls)
        IN  IF dbOk
            THEN /\ seq' = id
                 /\ issued' = Append(issued, id)
                 /\ reqs' = [reqs EXCEPT ![p] =
                        [r EXCEPT !.nextID = id, !.shortCode = encodeBase62(id), !.pc = "create"]]
            ELSE /\ reqs' = [reqs EXCEPT ![p] =
                        Fail(r, ErrNextID \o PqDown, ShortenStatus(ErrNextID \o PqDown))]
                 /\ UNCHANGED <<seq, issued>>
    /\ UNCHANGED <<urls, clicks, cache, now, eventQueue, batch, rl>>

\* an insert that gives the sequence value back when it fails
ShortenCreateRollback(p) ==
    /\ reqs[p].pc = "create"
    /\ \E dbOk \in BOOLEAN :
        LET r == reqs[p]
            e == CreateErr(urls, r.shortCode, dbOk)
        IN  IF e = NoErr
            THEN /\ urls' = urls \cup {[short_code |-> r.shortCode, original_url |-> r.url,
                                        custom_alias |-> r.isCustom, created_at |-> now]}
                 /\ reqs' = [reqs EXCEPT ![p] = [r EXCEPT !.pc = "cache"]]
                 /\ UNCHANGED seq
            ELSE /\ reqs' = [reqs EXCEPT ![p] = Fail(r, ErrCreate \o e, ShortenStatus(ErrCreate \o e))]
                 /\ seq' = IF r.isCustom \/ seq = 0 THEN seq ELSE seq - 1
                 /\ UNCHANGED urls
    /\ UNCHANGED <<clicks, cache, now, eventQueue, batch, issued, rl>>

\* a ShortenURL that goes on to cache its mapping when the insert failed
ShortenCreateLenient(p) ==
    /\ reqs[p].pc = "create"
    /\ \E dbOk \in BOOLEAN :
        LET r == reqs[p]
            e == CreateErr(urls, r.shortCode, dbOk)
        IN  /\ urls' = IF e = NoErr
                       THEN urls \cup {[short_code |-> r.shortCode, original_url |-> r.url,
                                        custom_alias |-> r.isCustom, created_at |-> now]}
                       ELSE urls
            /\ reqs' = [reqs EXCEPT ![p] = [r EXCEPT !.pc = "cache"]]
    /\ UNCHANGED <<seq, clicks, cache, now, eventQueue, batch, issued, rl>>

\* s.urlRepo.Create(urlRecord)
ShortenCreate(p) ==
    /\ reqs[p].pc = "create"
    /\ \E dbOk \in BOOLEAN :
        LET r == reqs[p]
            e == CreateErr(urls, r.shortCode, dbOk)
        IN  IF e = NoErr
            THEN /\ urls' = urls \cup {[short_code |-> r.shortCode, original_url |-> r.url,
                                        custom_alias |-> r.isCustom, created_at |-> now]}
                 /\ reqs' = [reqs EXCEPT ![p] = [r EXCEPT !.pc = "cache"]]
            ELSE /\ reqs' = [reqs EXCEPT ![p] = Fail(r, ErrCreate \o e, ShortenStatus(ErrCreate \o e))]
                 /\ UNCHANGED urls
    /\ UNCHANGED <<seq, clicks, cache, now, eventQueue, batch, issued, rl>>

\* caching the URL as received instead of the normalized one
ShortenCacheRaw(r) == r.rawURL

\* the value ShortenURL caches under the new code
ShortenCacheValue(r) == r.url

\* a ShortenURL that returns the cache error
ShortenCacheStrict(p) ==
    /\ reqs[p].pc = "cache"
    /\ \E cacheOk \in BOOLEAN :
        LET r == reqs[p]
        IN  /\ cache' = IF cacheOk THEN CachePut(cache, r.shortCode, r.url, CacheTTL) ELSE cache
            /\ reqs' = [reqs EXCEPT ![p] =
                   IF cacheOk THEN Return(r, NoErr, ShortenStatus(NoErr))
                   ELSE Fail([r EXCEPT !.cacheSetErr = TRUE], <<"failed", "to", "cache">>,
                             ShortenStatus(<<"failed", "to", "cache">>))]
    /\ UNCHANGED <<seq, urls, clicks, now, eventQueue, batch, issued, rl>>

\* s.cache.Set(shortCode, normalizedURL); a failure is logged and swallowed
ShortenCache(p) ==
    /\ reqs[p].pc = "cache"
    /\ \E cacheOk \in BOOLEAN :
        LET r == reqs[p]
        IN  /\ cache' = IF cacheOk THEN CachePut(cache, r.shortCode, ShortenCacheValue(r), CacheTTL)
                        ELSE cache
            /\ reqs' = [reqs EXCEPT ![p] =
                   Return([r EXCEPT !.cacheSetErr = ~cacheOk], NoErr, ShortenStatus(NoErr))]
    /\ UNCHANGED <<seq, urls, clicks, now, eventQueue, batch, issued, rl>>

(***************************************************************************)
(* AnalyticsService: sanitizing, RecordClickAsync, processEvents.          *)
(***************************************************************************)
RECURSIVE TrimLeft(_)
TrimLeft(s) == IF s # <<>> /\ Head(s) = " " THEN TrimLeft(Tail(s)) ELSE s

\* strings.TrimSpace
TrimSpace(s) == Reverse(TrimLeft(Reverse(TrimLeft(s))))

\* strings.Split(s, sep) for a one-character separator
Split(s, sep) ==
    LET cuts == {i \in 1..Len(s) : s[i] = sep}
        cut(k) == IF k = 0 THEN 0
                  ELSE IF k > Cardinality(cuts) THEN Len(s) + 1
                  ELSE CHOOSE i \in cuts : Cardinality({j \in cuts : j <= i}) = k
    IN  [k \in 1..(Cardinality(cuts) + 1) |-> SubSeq(s, cut(k - 1) + 1, cut(k) - 1)]

\* value of a decimal digit string
RECURSIVE Atoi(_)
Atoi(s) ==
    IF s = <<>> THEN 0
    ELSE 10 * Atoi(SubSeq(s, 1, Len(s) - 1))
         + ((CHOOSE i \in 1..10 : Digits[i] = s[Len(s)]) - 1)

\* net.ParseIP, dotted-decimal IPv4 only: four decimal fields of at most 255
ParseIPOk(s) ==
    \E parts \in {Split(s, ".")} :
        /\ Len(parts) = 4
        /\ \A i \in 1..4 :
            /\ Len(parts[i]) \in 1..3
            /\ \A j \in 1..Len(parts[i]) : IsDigit(parts[i][j])
            /\ Atoi(parts[i]) <= 255

sanitizeIPAddress(ipAddress) ==
    LET first == IF Contains(ipAddress, <<",">>)
                 THEN TrimSpace(Split(ipAddress, ",")[1])
                 ELSE ipAddress
    IN  IF ParseIPOk(first) THEN first ELSE Str_unknown

\* maxLength of sanitizeUserAgent
UserAgentMaxLength == 500

sanitizeUserAgent(userAgent) ==
    LET cut == IF Len(userAgent) > UserAgentMaxLength
               THEN SubSeq(userAgent, 1, UserAgentMaxLength) ELSE userAgent
    IN  IF TrimSpace(cut) = EmptyStr THEN Str_unknown ELSE TrimSpace(cut)

\* URLHandler.getClientIP
getClientIP(xff, xri, clientIP) ==
    IF xff # EmptyStr THEN TrimSpace(Split(xff, ",")[1])
    ELSE IF xri # EmptyStr THEN xri
    ELSE clientIP

\* the event RecordClickAsync builds
NewEvent(shortCode, ipAddress, userAgent) ==
    [ShortCode |-> shortCode, IPAddress |-> sanitizeIPAddress(ipAddress),
     UserAgent |-> sanitizeUserAgent(userAgent), Timestamp |-> now]

\* a queue that takes one event more than its capacity
QueueAcceptsOneMore(q) == Len(q) <= QueueCap

\* the non-blocking send `select { case s.eventQueue <- event: default: }`
QueueAccepts(q) == Len(q) < QueueCap

Enqueue(q, event) == IF QueueAccepts(q) THEN Append(q, event) ELSE q

\* AnalyticsRepository.RecordClick against the schema of table analytics:
\* short_code VARCHAR(10) with a foreign key to urls, ip_address INET
RecordClickErr(rows, a, dbOk) ==
    IF ~dbOk THEN PqDown
    ELSE IF Len(a.ShortCode) > ShortCodeWidth THEN PqTooLong
    ELSE IF ~ParseIPOk(a.IPAddress)
    THEN <<"pq", ":", "invalid", "input", "syntax", "for", "type", "inet">>
    ELSE IF ~Exists(rows, a.ShortCode)
    THEN <<"pq", ":", "violates", "foreign", "key", "constraint">>
    ELSE NoErr

\* a flush that walks the batch from its last item to its first
RECURSIVE flushFromBackward(_, _, _, _, _)
flushFromBackward(b, i, downAt, rows, tbl) ==
    IF i > Len(b) THEN tbl
    ELSE flushFromBackward(b, i + 1, downAt, rows,
            IF RecordClickErr(rows, b[Len(b) + 1 - i], i \notin downAt) = NoErr
            THEN Append(tbl, [short_code |-> b[Len(b) + 1 - i].ShortCode,
                              ip_address |-> b[Len(b) + 1 - i].IPAddress,
                              user_agent |-> b[Len(b) + 1 - i].UserAgent, clicked_at |-> now])
            ELSE tbl)

\* a flush that gives up at the first item the store refuses
RECURSIVE flushFromAbort(_, _, _, _, _)
flushFromAbort(b, i, downAt, rows, tbl) ==
    IF i > Len(b) THEN tbl
    ELSE IF RecordClickErr(rows, b[i], i \notin downAt) = NoErr
    THEN flushFromAbort(b, i + 1, downAt, rows,
            Append(tbl, [short_code |-> b[i].ShortCode, ip_address |-> b[i].IPAddress,
                         user_agent |-> b[i].UserAgent, clicked_at |-> now]))
    ELSE tbl

\* flushBatch: every item is handed to RecordClick; an error is logged and
\* the loop goes on.  downAt is the set of positions at which the store is down.
RECURSIVE flushFrom(_, _, _, _, _)
flushFrom(b, i, downAt, rows, tbl) ==
    IF i > Len(b) THEN tbl
    ELSE flushFrom(b, i + 1, downAt, rows,
            IF RecordClickErr(rows, b[i], i \notin downAt) = NoErr
            THEN Append(tbl, [short_code |-> b[i].ShortCode, ip_address |-> b[i].IPAddress,
                              user_agent |-> b[i].UserAgent, clicked_at |-> now])
            ELSE tbl)

flushBatch(b, downAt, rows, tbl) == flushFrom(b, 1, downAt, rows, tbl)

\* a worker that flushes only once the batch has grown past batchSize
WorkerReceiveLate ==
    /\ eventQueue # <<>>
    /\ LET event == Head(eventQueue)
           analytics == [ShortCode |-> event.ShortCode, IPAddress |-> event.IPAddress,
                         UserAgent |-> event.UserAgent]
           appended == Append(batch, analytics)
       IN  /\ eventQueue' = Tail(eventQueue)
           /\ IF Len(appended) > batchSize
              THEN /\ \E downAt \in SUBSET (1..Len(appended)) :
                        clicks' = flushBatch(appended, downAt, urls, clicks)
                   /\ batch' = <<>>
              ELSE /\ batch' = appended
                   /\ UNCHANGED clicks
    /\ UNCHANGED <<seq, urls, cache, now, reqs, issued, rl>>

\* case event := <-s.eventQueue
WorkerReceive ==
    /\ eventQueue # <<>>
    /\ LET event == Head(eventQueue)
           analytics == [ShortCode |-> event.ShortCode, IPAddress |-> event.IPAddress,
                         UserAgent |-> event.UserAgent]
           appended == Append(batch, analytics)
       IN  /\ eventQueue' = Tail(eventQueue)
           /\ IF Len(appended) >= batchSize
              THEN /\ \E downAt \in SUBSET (1..Len(appended)) :
                        clicks' = flushBatch(appended, downAt, urls, clicks)
                   /\ batch' = <<>>
              ELSE /\ batch' = appended
                   /\ UNCHANGED clicks
    /\ UNCHANGED <<seq, urls, cache, now, reqs, issued, rl>>

\* a worker whose timer case flushes nothing
WorkerTimerIdle ==
    /\ UNCHANGED <<clicks, batch>>
    /\ UNCHANGED <<seq, urls, cache, now, reqs, eventQueue, issued, rl>>

\* a worker that does not reset its batch after the timer flush
WorkerTimerKeep ==
    /\ IF Len(batch) > 0
       THEN /\ \E downAt \in SUBSET (1..Len(batch)) :
                 clicks' = flushBatch(batch, downAt, urls, clicks)
            /\ UNCHANGED batch
       ELSE UNCHANGED <<clicks, batch>>
    /\ UNCHANGED <<seq, urls, cache, now, reqs, eventQueue, issued, rl>>

\* case <-ticker.C
WorkerTimer ==
    /\ IF Len(batch) > 0
       THEN /\ \E downAt \in SUBSET (1..Len(batch)) :
                 clicks' = flushBatch(batch, downAt, urls, clicks)
            /\ batch' = <<>>
       ELSE UNCHANGED <<clicks, batch>>
    /\ UNCHANGED <<seq, urls, cache, now, reqs, eventQueue, issued, rl>>

(***************************************************************************)
(* GET /:short_code: URLHandler.RedirectURL and URLService.GetOriginalURL. *)
(***************************************************************************)
\* the status URLHandler.RedirectURL answers for the service's error
RedirectStatus(err) ==
    IF err = NoErr THEN 301
    ELSE IF Contains(err, <<"not", "found">>) THEN 404
    ELSE 500

RedirectStart(p, code, xff) ==
    /\ Free(p)
    /\ Len(clicks) < MaxClicks
    /\ code # EmptyStr
    /\ reqs' = [reqs EXCEPT ![p] =
           [NoReq EXCEPT !.kind = "redirect", !.shortCode = code, !.xff = xff,
                         !.pc = "cacheget"]]
    /\ UNCHANGED <<seq, urls, clicks, cache, now, eventQueue, batch, issued, rl>>

\* a GetOriginalURL that returns every cache error but redis.Nil
RedirectCacheGetStrict(p) ==
    /\ reqs[p].pc = "cacheget"
    /\ \E cacheOk \in BOOLEAN :
        LET r == reqs[p]
        IN  reqs' = [reqs EXCEPT ![p] =
                IF ~cacheOk
                THEN Fail([r EXCEPT !.cacheGetErr = TRUE], <<"cache", "error">>,
                          RedirectStatus(<<"cache", "error">>))
                ELSE IF r.shortCode \in DOMAIN cache
                THEN [r EXCEPT !.url = cache[r.shortCode].val, !.hit = TRUE, !.pc = "capture"]
                ELSE [r EXCEPT !.pc = "dbget"]]
    /\ UNCHANGED <<seq, urls, clicks, cache, now, eventQueue, batch, issued, rl>>

\* a GetOriginalURL that reads the store whatever the cache holds
RedirectCacheGetBypass(p) ==
    /\ reqs[p].pc = "cacheget"
    /\ \E cacheOk \in BOOLEAN :
        reqs' = [reqs EXCEPT ![p] = [reqs[p] EXCEPT !.cacheGetErr = ~cacheOk, !.pc = "dbget"]]
    /\ UNCHANGED <<seq, urls, clicks, cache, now, eventQueue, batch, issued, rl>>

\* s.cache.Get(shortCode): a hit returns; a miss (redis.Nil) or any other
\* error falls through to the database
RedirectCacheGet(p) ==
    /\ reqs[p].pc = "cacheget"
    /\ \E cacheOk \in BOOLEAN :
        LET r == reqs[p]
        IN  reqs' = [reqs EXCEPT ![p] =
                IF cacheOk /\ r.shortCode \in DOMAIN cache
                THEN [r EXCEPT !.url = cache[r.shortCode].val, !.hit = TRUE, !.pc = "capture"]
                ELSE [r EXCEPT !.cacheGetErr = ~cacheOk, !.pc = "dbget"]]
    /\ UNCHANGED <<seq, urls, clicks, cache, now, eventQueue, batch, issued, rl>>

\* s.urlRepo.GetByShortCode(shortCode)
RedirectDbGet(p) ==
    /\ reqs[p].pc = "dbget"
    /\ \E dbOk \in BOOLEAN :
        LET r == reqs[p]
            found == GetByShortCode(urls, r.shortCode)
        IN  reqs' = [reqs EXCEPT ![p] =
                IF ~dbOk THEN Fail(r, ErrGetURL \o PqDown, RedirectStatus(ErrGetURL \o PqDown))
                ELSE IF found = {} THEN Fail(r, ErrNotFound, RedirectStatus(ErrNotFound))
                ELSE [r EXCEPT !.url = (CHOOSE u \in found : TRUE).original_url,
                               !.storeRead = TRUE, !.pc = "cacheset"]]
    /\ UNCHANGED <<seq, urls, clicks, cache, now, eventQueue, batch, issued, rl>>

\* s.cache.Set(shortCode, urlRecord.OriginalURL); a failure is logged and swallowed
RedirectCacheSet(p) ==
    /\ reqs[p].pc = "cacheset"
    /\ \E cacheOk \in BOOLEAN :
        LET r == reqs[p]
        IN  /\ cache' = IF cacheOk THEN CachePut(cache, r.shortCode, r.url, CacheTTL) ELSE cache
            /\ reqs' = [reqs EXCEPT ![p] =
                   [r EXCEPT !.pc = "capture", !.cacheSetErr = ~cacheOk]]
    /\ UNCHANGED <<seq, urls, clicks, now, eventQueue, batch, issued, rl>>

\* a RedirectURL that answers 500 when the event cannot be queued
RedirectCaptureStrict(p) ==
    /\ reqs[p].pc = "capture"
    /\ LET r == reqs[p]
           event == NewEvent(r.shortCode, getClientIP(r.xff, EmptyStr, IP_1), UA_curl)
           c == [r EXCEPT !.captured = TRUE, !.dropped = ~QueueAccepts(eventQueue)]
       IN  /\ eventQueue' = Enqueue(eventQueue, event)
           /\ reqs' = [reqs EXCEPT ![p] =
                  IF QueueAccepts(eventQueue)
                  THEN Return([c EXCEPT !.location = r.url], NoErr, RedirectStatus(NoErr))
                  ELSE Fail(c, <<"analytics", "queue", "full">>,
                            RedirectStatus(<<"analytics", "queue", "full">>))]
    /\ UNCHANGED <<seq, urls, clicks, cache, now, batch, issued, rl>>

\* h.analyticsService.RecordClickAsync(...) and c.Redirect(301, originalURL)
RedirectCapture(p) ==
    /\ reqs[p].pc = "capture"
    /\ LET r == reqs[p]
           event == NewEvent(r.shortCode, getClientIP(r.xff, EmptyStr, IP_1), UA_curl)
       IN  /\ eventQueue' = Enqueue(eventQueue, event)
           /\ reqs' = [reqs EXCEPT ![p] =
                  Return([r EXCEPT !.captured = TRUE, !.dropped = ~QueueAccepts(eventQueue),
                                   !.location = r.url],
                         NoErr, RedirectStatus(NoErr))]
    /\ UNCHANGED <<seq, urls, clicks, cache, now, batch, issued, rl>>

(***************************************************************************)
(* GET /api/v1/urls/:short_code/stats: URLHandler.GetURLStats,             *)
(* URLService.GetURLStats and URLRepository.GetStats.                      *)
(***************************************************************************)
\* a query that also counts the events waiting in the queue and in the batch
GetStatsWithPending(rows, tbl, code) ==
    { [short_code |-> u.short_code, original_url |-> u.original_url, created_at |-> u.created_at,
       click_count |-> Cardinality({i \in 1..Len(tbl) : tbl[i].short_code = u.short_code})
                       + Cardinality({i \in 1..Len(eventQueue) : eventQueue[i].ShortCode = u.short_code})
                       + Cardinality({i \in 1..Len(batch) : batch[i].ShortCode = u.short_code})]
      : u \in {r \in rows : r.short_code = code} }

\* urls LEFT JOIN analytics, grouped by the columns of urls: the result rows,
\* none for sql.ErrNoRows
GetStats(rows, tbl, code) ==
    { [short_code |-> u.short_code, original_url |-> u.original_url, created_at |-> u.created_at,
       click_count |-> Cardinality({i \in 1..Len(tbl) : tbl[i].short_code = u.short_code})]
      : u \in {r \in rows : r.short_code = code} }

\* the status URLHandler.GetURLStats answers for the service's error
StatsStatus(err) ==
    IF err = NoErr THEN 200
    ELSE IF Contains(err, <<"not", "found">>) THEN 404
    ELSE 500

StatsStart(p, code) ==
    /\ Free(p)
    /\ code # EmptyStr
    /\ reqs' = [reqs EXCEPT ![p] =
           [NoReq EXCEPT !.kind = "stats", !.shortCode = code, !.pc = "stats"]]
    /\ UNCHANGED <<seq, urls, clicks, cache, now, eventQueue, batch, issued, rl>>

\* s.urlRepo.GetStats(shortCode) and the answer built from it
StatsQuery(p) ==
    /\ reqs[p].pc = "stats"
    /\ \E dbOk \in BOOLEAN :
        LET r == reqs[p]
            found == GetStats(urls, clicks, r.shortCode)
            stats == CHOOSE st \in found : TRUE
        IN  reqs' = [reqs EXCEPT ![p] =
                IF ~dbOk THEN Fail(r, ErrGetStats \o PqDown, StatsStatus(ErrGetStats \o PqDown))
                ELSE IF found = {} THEN Fail(r, ErrNotFound, StatsStatus(ErrNotFound))
                ELSE Return([r EXCEPT !.url = stats.original_url, !.createdAt = stats.created_at,
                                      !.clickCount = stats.click_count],
                            NoErr, StatsStatus(NoErr))]
    /\ UNCHANGED <<seq, urls, clicks, cache, now, eventQueue, batch, issued, rl>>

\* Redis drops an entry: its TTL elapsed or it was evicted
CacheEvict(key) ==
    /\ key \in DOMAIN cache
    /\ cache' = CacheDrop(cache, {key})
    /\ UNCHANGED <<seq, urls, clicks, now, reqs, eventQueue, batch, issued, rl>>

(***************************************************************************)
(* RateLimitMiddleware.                                                    *)
(***************************************************************************)
maxRequests == 100
\* timeWindow = time.Minute, in seconds
timeWindow == 60

Str_rate_limit == <<"r","a","t","e","_","l","i","m","i","t",":">>

\* fmt.Sprintf("rate_limit:%s", clientIP)
RateLimitKey(clientIP) == Str_rate_limit \o clientIP

\* fmt.Sprintf("%d", n) for n >= 0
RECURSIVE Itoa(_)
Itoa(n) == IF n < 10 THEN <<Digits[n + 1]>> ELSE Itoa(n \div 10) \o <<Digits[(n % 10) + 1]>>

\* the leading decimal digits of s
RECURSIVE LeadingDigits(_)
LeadingDigits(s) ==
    IF s # <<>> /\ IsDigit(Head(s)) THEN <<Head(s)>> \o LeadingDigits(Tail(s)) ELSE <<>>

\* fmt.Sscanf(countStr, "%d", &count) into a zero-initialised count
Sscanf(countStr) == Atoi(LeadingDigits(countStr))

\* the comparison off by one
RateLimitExceededAt(count) == count >= maxRequests

\* the comparison off by one the other way
RateLimitExceededLate(count) == count > maxRequests + 1

\* if count > maxRequests
RateLimitExceeded(count) == count > maxRequests

Clients == {IP_1}

NoLimit == [n |-> 0, firstAt |-> 0]

\* a request for one of the routes of setupRoutes reaches the middleware chain
\* of router.Use; `route` names the handler that c.Next() will run
ArriveAt(p, clientIP, route) ==
    /\ Free(p)
    /\ LET h == IF clientIP \in DOMAIN rl THEN rl[clientIP] ELSE NoLimit
       IN  /\ h.n < maxRequests + 2
           /\ rl' = [c \in DOMAIN rl \cup {clientIP} |->
                        IF c = clientIP
                        THEN [h EXCEPT !.n = h.n + 1, !.firstAt = IF h.n = 0 THEN now ELSE h.firstAt]
                        ELSE rl[c]]
           /\ reqs' = [reqs EXCEPT ![p] =
                  [NoReq EXCEPT !.kind = route, !.client = clientIP, !.idx = h.n + 1,
                                !.pc = "rl_get"]]
    /\ UNCHANGED <<seq, urls, clicks, cache, now, eventQueue, batch, issued>>

\* a request for GET /health
Arrive(p, clientIP) == ArriveAt(p, clientIP, "health")

\* a limiter that denies the request when it cannot read its counter
RateLimitGetFailClosed(p, cacheOk) ==
    /\ reqs[p].pc = "rl_get"
    /\ LET r == reqs[p]
            key == RateLimitKey(r.client)
            count == Sscanf(cache[key].val) + 1
        IN  /\ reqs' = [reqs EXCEPT ![p] =
                   IF ~cacheOk
                   THEN [r EXCEPT !.cacheGetErr = TRUE, !.pc = "done", !.status = 429]
                   ELSE IF key \notin DOMAIN cache
                   THEN [r EXCEPT !.count = 1, !.pc = "rl_set"]
                   ELSE IF RateLimitExceeded(count)
                   THEN [r EXCEPT !.count = count, !.pc = "done", !.status = 429]
                   ELSE [r EXCEPT !.count = count, !.pc = "rl_set"]]
    /\ UNCHANGED <<seq, urls, clicks, cache, now, eventQueue, batch, issued, rl>>

\* a limiter that stores the incremented counter before it denies
RateLimitGetCountDenied(p, cacheOk) ==
    /\ reqs[p].pc = "rl_get"
    /\ LET r == reqs[p]
            key == RateLimitKey(r.client)
            count == Sscanf(cache[key].val) + 1
        IN  /\ reqs' = [reqs EXCEPT ![p] =
                   IF ~(cacheOk /\ key \in DOMAIN cache)
                   THEN [r EXCEPT !.count = 1, !.cacheGetErr = ~cacheOk, !.pc = "rl_set"]
                   ELSE IF RateLimitExceeded(count)
                   THEN [r EXCEPT !.count = count, !.pc = "done", !.status = 429]
                   ELSE [r EXCEPT !.count = count, !.pc = "rl_set"]]
            /\ cache' = IF cacheOk /\ key \in DOMAIN cache /\ RateLimitExceeded(count)
                        THEN CachePut(cache, key, Itoa(count), timeWindow)
                        ELSE cache
    /\ UNCHANGED <<seq, urls, clicks, now, eventQueue, batch, issued, rl>>

\* countStr, err := cache.Get(key) and the decision taken on it
RateLimitGet(p, cacheOk) ==
    /\ reqs[p].pc = "rl_get"
    /\ LET r == reqs[p]
            key == RateLimitKey(r.client)
            count == Sscanf(cache[key].val) + 1
        IN  /\ reqs' = [reqs EXCEPT ![p] =
                   IF ~(cacheOk /\ key \in DOMAIN cache)
                   THEN [r EXCEPT !.count = 1, !.cacheGetErr = ~cacheOk, !.pc = "rl_set"]
                   ELSE IF RateLimitExceeded(count)
                   THEN [r EXCEPT !.count = count, !.pc = "done", !.status = 429]
                   ELSE [r EXCEPT !.count = count, !.pc = "rl_set"]]
    /\ UNCHANGED <<seq, urls, clicks, cache, now, eventQueue, batch, issued, rl>>

\* a limiter whose write increments the stored counter atomically
RateLimitSetIncr(p, cacheOk) ==
    /\ reqs[p].pc = "rl_set"
    /\ LET r == reqs[p]
            key == RateLimitKey(r.client)
            stored == IF key \in DOMAIN cache THEN Sscanf(cache[key].val) ELSE 0
        IN  /\ cache' = IF cacheOk
                        THEN CachePut(cache, key, Itoa(stored + 1), timeWindow)
                        ELSE cache
            /\ reqs' = [reqs EXCEPT ![p] = [r EXCEPT !.cacheSetErr = ~cacheOk, !.pc = "handler"]]
    /\ UNCHANGED <<seq, urls, clicks, now, eventQueue, batch, issued, rl>>

\* cache.SetWithTTL(key, count, timeWindow), then c.Next() whether it failed or not
RateLimitSet(p, cacheOk) ==
    /\ reqs[p].pc = "rl_set"
    /\ LET r == reqs[p]
        IN  /\ cache' = IF cacheOk
                        THEN CachePut(cache, RateLimitKey(r.client), Itoa(r.count), timeWindow)
                        ELSE cache
            /\ reqs' = [reqs EXCEPT ![p] = [r EXCEPT !.cacheSetErr = ~cacheOk, !.pc = "handler"]]
    /\ UNCHANGED <<seq, urls, clicks, now, eventQueue, batch, issued, rl>>

\* GET /health: URLHandler.HealthCheck, which changes no state
HealthCheck(p) ==
    /\ reqs[p].pc = "handler"
    /\ reqs[p].kind = "health"
    /\ \E dbOk \in BOOLEAN :
        reqs' = [reqs EXCEPT ![p] =
            [reqs[p] EXCEPT !.pc = "done", !.status = IF dbOk THEN 200 ELSE 503]]
    /\ UNCHANGED <<seq, urls, clicks, cache, now, eventQueue, batch, issued, rl>>

\* GET /:short_code behind the middleware chain: URLHandler.RedirectURL reads
\* the path parameter and calls GetOriginalURL
RedirectRoute(p, code) ==
    /\ reqs[p].pc = "handler"
    /\ reqs[p].kind = "redirect"
    /\ code # EmptyStr
    /\ reqs' = [reqs EXCEPT ![p] =
           [reqs[p] EXCEPT !.shortCode = code, !.cacheGetErr = FALSE, !.cacheSetErr = FALSE,
                           !.count = 0, !.pc = "cacheget"]]
    /\ UNCHANGED <<seq, urls, clicks, cache, now, eventQueue, batch, issued, rl>>

\* time passes; Redis removes the keys whose TTL has elapsed
Tick ==
    /\ now + TickStep <= MaxTime
    /\ now' = now + TickStep
    /\ cache' = CacheDrop(cache, {k \in DOMAIN cache : cache[k].exp <= now + TickStep})
    /\ UNCHANGED <<seq, urls, clicks, reqs, eventQueue, batch, issued, rl>>

(***************************************************************************)
(* Specifications.                                                         *)
(***************************************************************************)
\* the shortening engine, for requests the middleware has let through; the
\* worker of the analytics pipeline is not scheduled, so captured events stay
\* in the queue
Next ==
    \/ \E p \in Procs, in \in ShortenInputs :
          /\ in[2] = NoAlias => Len(issued) < MaxAlloc
          /\ ShortenStart(p, in[1], in[2])
    \/ \E p \in Procs : ShortenExists(p)
    \/ \E p \in Procs : ShortenNextID(p)
    \/ \E p \in Procs : ShortenCreate(p)
    \/ \E p \in Procs : ShortenCache(p)
    \/ \E p \in Procs, code \in LookupCodes : RedirectStart(p, code, EmptyStr)
    \/ \E p \in Procs : RedirectCacheGet(p)
    \/ \E p \in Procs : RedirectDbGet(p)
    \/ \E p \in Procs : RedirectCacheSet(p)
    \/ \E p \in Procs : RedirectCapture(p)
    \/ \E key \in DOMAIN cache : CacheEvict(key)

Spec == Init /\ [][Next]_vars

\* the redirect path and the analytics pipeline over a store that holds one
\* mapping, created by shorten("https://a/", "100")
Code_z == <<"z">>

InitAn ==
    /\ seq = 0
    /\ urls = {[short_code |-> Alias_100, original_url |-> URL_A, custom_alias |-> TRUE,
                created_at |-> 0]}
    /\ clicks = <<>>
    /\ cache = <<>>
    /\ now = 0
    /\ reqs = [p \in Procs |-> NoReq]
    /\ eventQueue = <<>>
    /\ batch = <<>>
    /\ issued = <<>>
    /\ rl = <<>>

NextAn ==
    \/ \E p \in Procs, code \in {Alias_100, Code_z}, xff \in {EmptyStr, IP_garbage} :
          RedirectStart(p, code, xff)
    \/ \E p \in Procs : RedirectCacheGet(p)
    \/ \E p \in Procs : RedirectDbGet(p)
    \/ \E p \in Procs : RedirectCacheSet(p)
    \/ \E p \in Procs : RedirectCapture(p)
    \/ \E key \in DOMAIN cache : CacheEvict(key)
    \/ WorkerReceive
    \/ WorkerTimer

SpecAn == InitAn /\ [][NextAn]_vars

\* statistics next to the redirect path and the analytics pipeline: request 1
\* resolves, request 2 asks for statistics
NextSt ==
    \/ \E code \in {Alias_100, Code_z}, xff \in {EmptyStr, IP_garbage} : RedirectStart(1, code, xff)
    \/ RedirectCacheGet(1)
    \/ RedirectDbGet(1)
    \/ RedirectCacheSet(1)
    \/ RedirectCapture(1)
    \/ WorkerReceive
    \/ WorkerTimer
    \/ \E code \in {Alias_100, Code_z} : StatsStart(2, code)
    \/ StatsQuery(2)

SpecSt == InitAn /\ [][NextSt]_vars

\* the analytics pipeline under the clock: request 1 resolves the stored
\* code, the worker receives and flushes, and time passes in between
NextPipe ==
    \/ RedirectStart(1, Alias_100, EmptyStr)
    \/ RedirectCacheGet(1)
    \/ RedirectDbGet(1)
    \/ RedirectCacheSet(1)
    \/ RedirectCapture(1)
    \/ WorkerReceive
    \/ WorkerTimer
    \/ Tick

SpecPipe == InitAn /\ [][NextPipe]_vars

\* the analytics pipeline with its worker scheduled: processEvents is a
\* goroutine that loops over `select` for the life of the process, so a
\* receive that stays possible is taken, and the ticker fires every
\* flushInterval, so a flush that stays due is done
NextWorker ==
    \/ \E xff \in {EmptyStr, IP_garbage} : RedirectStart(1, Alias_100, xff)
    \/ RedirectCacheGet(1)
    \/ RedirectDbGet(1)
    \/ RedirectCacheSet(1)
    \/ RedirectCapture(1)
    \/ WorkerReceive
    \/ WorkerTimer

SpecWorker ==
    /\ InitAn
    /\ [][NextWorker]_vars
    /\ WF_vars(WorkerReceive)
    /\ WF_vars(WorkerTimer)

\* the analytics pipeline fed by clients of different addresses: request 1
\* resolves the stored code for a client named by X-Forwarded-For (a second
\* address, or a value that is no address) or by the connection
NextOrder ==
    \/ \E xff \in {EmptyStr, IP_2, IP_garbage} : RedirectStart(1, Alias_100, xff)
    \/ RedirectCacheGet(1)
    \/ RedirectDbGet(1)
    \/ RedirectCacheSet(1)
    \/ RedirectCapture(1)
    \/ WorkerReceive
    \/ WorkerTimer

SpecOrder == InitAn /\ [][NextOrder]_vars

\* the rate limiter in front of a handler, one request at a time, with the
\* clock and a healthy cache
NextRL ==
    \/ \E clientIP \in Clients : Arrive(1, clientIP)
    \/ RateLimitGet(1, TRUE)
    \/ RateLimitSet(1, TRUE)
    \/ HealthCheck(1)
    \/ Tick

SpecRL == Init /\ [][NextRL]_vars

\* encodeBase62 on its own, as TestBase62Encoding calls it
TestNums == {0, 1, 61, 62, 123, 12345, 999999}

InitEnc ==
    /\ seq = 0
    /\ urls = {}
    /\ clicks = <<>>
    /\ cache = <<>>
    /\ now = 0
    /\ \E num \in (0..MaxNum) \cup TestNums :
          reqs = [p \in Procs |-> IF p = 1 THEN EncodeInput(num) ELSE NoReq]
    /\ eventQueue = <<>>
    /\ batch = <<>>
    /\ issued = <<>>
    /\ rl = <<>>

NextEnc == EncodeCall(1)

SpecEnc == InitEnc /\ [][NextEnc]_vars

\* validation: one shorten request per explored body, on a fresh database
InitVal ==
    /\ seq = 0
    /\ urls = {}
    /\ clicks = <<>>
    /\ cache = <<>>
    /\ now = 0
    /\ \E in \in ValidationInputs :
          reqs = [p \in Procs |-> IF p = 1 THEN Received(in[1], in[2]) ELSE NoReq]
    /\ eventQueue = <<>>
    /\ batch = <<>>
    /\ issued = <<>>
    /\ rl = <<>>

NextVal ==
    \/ ShortenValidate(1)
    \/ ShortenExists(1)
    \/ ShortenNextID(1)
    \/ ShortenCreate(1)
    \/ ShortenCache(1)

SpecVal == InitVal /\ [][NextVal]_vars

\* the middleware chain in front of the routes, with concurrent requests and a
\* cache that may fail, from the state SpecRL is in when the client's first
\* maxRequests - 1 requests have been answered in second 0
RequestsBefore == maxRequests - 1

Routes == {"health", "redirect"}

InitGate ==
    /\ seq = 0
    /\ urls = {[short_code |-> Alias_100, original_url |-> URL_A, custom_alias |-> TRUE,
                created_at |-> 0]}
    /\ clicks = <<>>
    /\ cache = [k \in {RateLimitKey(IP_1)} |-> [val |-> Itoa(RequestsBefore), exp |-> timeWindow]]
    /\ now = 0
    /\ reqs = [p \in Procs |-> NoReq]
    /\ eventQueue = <<>>
    /\ batch = <<>>
    /\ issued = <<>>
    /\ rl = [c \in Clients |-> [n |-> RequestsBefore, firstAt |-> 0]]

NextGate ==
    \/ \E p \in Procs, clientIP \in Clients, route \in Routes : ArriveAt(p, clientIP, route)
    \/ \E p \in Procs, cacheOk \in BOOLEAN : RateLimitGet(p, cacheOk)
    \/ \E p \in Procs, cacheOk \in BOOLEAN : RateLimitSet(p, cacheOk)
    \/ \E p \in Procs : HealthCheck(p)
    \/ \E p \in Procs, code \in {Alias_100, Code_z} : RedirectRoute(p, code)
    \/ \E p \in Procs : RedirectCacheGet(p)
    \/ \E p \in Procs : RedirectDbGet(p)
    \/ \E p \in Procs : RedirectCacheSet(p)
    \/ \E p \in Procs : RedirectCapture(p)

SpecGate == InitGate /\ [][NextGate]_vars

\* GET /:short_code behind the limiter, for the stored code and for a path
\* segment that spells the limiter's own key: gin binds any segment to
\* short_code, and the limiter and the URL service use the same RedisCache
NextKeys ==
    \/ \E p \in Procs, clientIP \in Clients : ArriveAt(p, clientIP, "redirect")
    \/ \E p \in Procs, cacheOk \in BOOLEAN : RateLimitGet(p, cacheOk)
    \/ \E p \in Procs, cacheOk \in BOOLEAN : RateLimitSet(p, cacheOk)
    \/ \E p \in Procs, code \in {Alias_100, RateLimitKey(IP_1)} : RedirectRoute(p, code)
    \/ \E p \in Procs : RedirectCacheGet(p)
    \/ \E p \in Procs : RedirectDbGet(p)
    \/ \E p \in Procs : RedirectCacheSet(p)
    \/ \E p \in Procs : RedirectCapture(p)

SpecKeys == InitGate /\ [][NextKeys]_vars

(***************************************************************************)
(* Properties.                                                             *)
(***************************************************************************)
Mapped(code) == Exists(urls, code)
StoreURL(code) == (CHOOSE r \in urls : r.short_code = code).original_url

IsShorten(p) == reqs[p].kind = "shorten"
IsRedirect(p) == reqs[p].kind = "redirect"
Done(p) == reqs[p].pc = "done"

\* p is a shorten call without a custom alias that has drawn its sequence value
HoldsCounterCode(p) ==
    /\ IsShorten(p)
    /\ ~reqs[p].isCustom
    /\ reqs[p].shortCode # EmptyStr

\* C1: concurrent shorten calls without a custom alias all draw distinct
\* values from the sequence and so are given distinct short codes.
C1_SequenceValuesDistinct ==
    /\ \A i, j \in 1..Len(issued) :
          i # j => /\ issued[i] # issued[j]
                   /\ encodeBase62(issued[i]) # encodeBase62(issued[j])
    /\ \A p, q \in Procs :
          (p # q /\ HoldsCounterCode(p) /\ HoldsCounterCode(q))
              => reqs[p].shortCode # reqs[q].shortCode

\* two calls hold their codes at the same time, both about to insert
C1_Witness ==
    \E p, q \in Procs :
        /\ p # q
        /\ HoldsCounterCode(p) /\ reqs[p].pc = "create"
        /\ HoldsCounterCode(q) /\ reqs[q].pc = "create"

\* C2: a shorten call with a custom alias that passed the existence check and
\* then lost the insert to a concurrent call with the same alias is answered
\* with the client error for an existing alias (400, "already exists").
C2_RaceIsAliasConflict ==
    \A p \in Procs :
        (IsShorten(p) /\ Done(p) /\ reqs[p].isCustom /\ Contains(reqs[p].err, PqUnique))
            => /\ reqs[p].status = 400
               /\ Contains(reqs[p].err, <<"already", "exists">>)

\* C3: the store holds at most one mapping per code, and a mapping, once
\* created, is never changed or removed.
C3_OneMappingPerCodeForever ==
    /\ [](\A r1, r2 \in urls : r1.short_code = r2.short_code => r1 = r2)
    /\ [][\A r \in urls : r \in urls']_vars

\* a custom-alias mapping and a counter-derived mapping side by side
C3_Witness ==
    \E r1, r2 \in urls : r1.custom_alias /\ ~r2.custom_alias

\* C4: the code a shorten call derives from its sequence value is never in
\* use already, so its insert never fails on the unique constraint.
C4_CounterCodeIsFresh ==
    \A p \in Procs :
        /\ (HoldsCounterCode(p) /\ reqs[p].pc = "create") => ~Mapped(reqs[p].shortCode)
        /\ (IsShorten(p) /\ ~reqs[p].isCustom) => ~Contains(reqs[p].err, PqUnique)

\* p is a resolve whose target URL has been determined
Resolved(p) ==
    /\ IsRedirect(p)
    /\ \/ reqs[p].pc \in {"cacheset", "capture"}
       \/ Done(p) /\ reqs[p].status = 301

\* C5: every resolve of a mapped code yields the mapping's targetUrl, on a
\* cache hit as on a miss or after an eviction.
C5_ResolveYieldsTheMapping ==
    \A p \in Procs :
        Resolved(p) =>
            /\ Mapped(reqs[p].shortCode)
            /\ reqs[p].url = StoreURL(reqs[p].shortCode)
            /\ Done(p) => reqs[p].location = StoreURL(reqs[p].shortCode)

\* one resolve answered from the cache and one from the store, same code
C5_Witness ==
    \E p, q \in Procs :
        /\ IsRedirect(p) /\ Done(p) /\ reqs[p].status = 301 /\ reqs[p].hit
        /\ IsRedirect(q) /\ Done(q) /\ reqs[q].status = 301 /\ reqs[q].storeRead
        /\ reqs[p].shortCode = reqs[q].shortCode
        /\ reqs[p].location = reqs[q].location

\* the errors the store and the validation can give a shorten call
ShortenErrors ==
    { ErrCheckAlias \o PqDown, ErrAliasExists, ErrNextID \o PqDown,
      ErrCreate \o PqDown, ErrCreate \o PqUnique, ErrCreate \o PqTooLong }

\* C6: when the cache fails, resolve of a mapped code still returns the
\* mapping's targetUrl from the store and shorten still succeeds; no cache
\* error reaches the caller.
C6_CacheFailureIsInvisible ==
    /\ [](\A p \in Procs :
            /\ (IsRedirect(p) /\ Done(p) /\ reqs[p].err # NoErr)
                  => reqs[p].err \in {ErrNotFound, ErrGetURL \o PqDown}
            /\ (Resolved(p) /\ reqs[p].cacheGetErr)
                  => reqs[p].url = StoreURL(reqs[p].shortCode)
            /\ (IsShorten(p) /\ Done(p) /\ reqs[p].err # NoErr)
                  => \/ reqs[p].err \in ShortenErrors
                     \/ HasPrefix(reqs[p].err, ErrInvalidURL)
                     \/ HasPrefix(reqs[p].err, ErrInvalidAlias)
            /\ (IsShorten(p) /\ Done(p) /\ reqs[p].cacheSetErr)
                  => reqs[p].status = 201)
    /\ [][\A p \in Procs :
            /\ (IsRedirect(p) /\ reqs[p].pc = "dbget" /\ reqs[p].cacheGetErr
                /\ reqs'[p].pc # "dbget" /\ Mapped(reqs[p].shortCode))
                  => \/ /\ reqs'[p].pc = "cacheset"
                        /\ reqs'[p].url = StoreURL(reqs[p].shortCode)
                     \/ /\ reqs'[p].pc = "done"
                        /\ reqs'[p].err = ErrGetURL \o PqDown
            /\ (IsRedirect(p) /\ reqs[p].pc = "cacheset" /\ reqs'[p].pc # "cacheset")
                  => reqs'[p].pc = "capture"
            /\ (IsRedirect(p) /\ reqs[p].pc = "capture" /\ reqs'[p].pc # "capture")
                  => /\ reqs'[p].pc = "done"
                     /\ reqs'[p].status = 301
                     /\ reqs'[p].location = reqs[p].url]_vars

\* a resolve whose cache read and cache write both failed, answered 301
C6_Witness ==
    \E p \in Procs :
        /\ IsRedirect(p) /\ Done(p)
        /\ reqs[p].cacheGetErr /\ reqs[p].cacheSetErr
        /\ reqs[p].status = 301
        /\ reqs[p].location = StoreURL(reqs[p].shortCode)

\* C7: a shorten whose insert succeeded and whose cache write failed returns
\* success and its mapping is in the store; a later resolve reads the target
\* from the store and, when its cache write works, leaves it in the cache.
C7_CacheWriteFailureIsSwallowed ==
    /\ [](\A p \in Procs :
            (IsShorten(p) /\ Done(p) /\ reqs[p].cacheSetErr)
                => /\ reqs[p].status = 201
                   /\ reqs[p].err = NoErr
                   /\ Mapped(reqs[p].shortCode)
                   /\ StoreURL(reqs[p].shortCode) = reqs[p].url)
    /\ [][\A p \in Procs :
            /\ (IsRedirect(p) /\ reqs[p].pc = "dbget" /\ reqs'[p].pc = "cacheset")
                  => reqs'[p].url = StoreURL(reqs[p].shortCode)
            /\ (IsRedirect(p) /\ reqs[p].pc = "cacheset" /\ reqs'[p].pc = "capture"
                /\ ~reqs'[p].cacheSetErr)
                  => /\ reqs[p].shortCode \in DOMAIN cache'
                     /\ cache'[reqs[p].shortCode].val = StoreURL(reqs[p].shortCode)]_vars

\* the shorten returned 201 without caching; a resolve then missed, read the
\* store and repopulated the cache
C7_Witness ==
    \E p, q \in Procs :
        /\ IsShorten(p) /\ Done(p) /\ reqs[p].cacheSetErr /\ reqs[p].status = 201
        /\ IsRedirect(q) /\ Done(q) /\ reqs[q].shortCode = reqs[p].shortCode
        /\ reqs[q].storeRead /\ ~reqs[q].cacheGetErr /\ ~reqs[q].cacheSetErr
        /\ reqs[q].status = 301 /\ reqs[q].location = reqs[p].url
        /\ reqs[p].shortCode \in DOMAIN cache
        /\ cache[reqs[p].shortCode].val = reqs[p].url

\* C8: capture returns in one step of its caller, whatever the queue holds,
\* and reports no error; below capacity (QueueCap here, 10000 in the code)
\* the event is appended, at capacity exactly that event is dropped and the
\* queued events stay as they are; the queue never exceeds its capacity.
C8_CaptureNeverBlocks ==
    [][/\ Len(eventQueue') <= QueueCap
       /\ \A p \in Procs :
            (reqs[p].pc = "capture" /\ reqs'[p] # reqs[p])
                => /\ reqs'[p].pc = "done"
                   /\ reqs'[p].err = NoErr
                   /\ reqs'[p].captured
                   /\ IF Len(eventQueue) < QueueCap
                      THEN /\ Len(eventQueue') = Len(eventQueue) + 1
                           /\ SubSeq(eventQueue', 1, Len(eventQueue)) = eventQueue
                           /\ eventQueue'[Len(eventQueue')].ShortCode = reqs[p].shortCode
                           /\ ~reqs'[p].dropped
                      ELSE /\ eventQueue' = eventQueue
                           /\ reqs'[p].dropped]_vars

\* an event was dropped at a full queue that holds two different events
C8_Witness ==
    /\ Len(eventQueue) = QueueCap
    /\ \E i, j \in 1..Len(eventQueue) : eventQueue[i] # eventQueue[j]
    /\ \E p \in Procs : Done(p) /\ reqs[p].dropped

\* C9: capture is invoked only once the target URL is determined, never for
\* a resolve that fails; the answer is 301 to that URL whether the event was
\* queued or dropped, and no step of the worker changes any request.
C9_AnalyticsNeverGatesTheAnswer ==
    /\ [](\A p \in Procs :
            /\ (IsRedirect(p) /\ (reqs[p].pc = "capture" \/ reqs[p].captured))
                  => /\ reqs[p].hit \/ reqs[p].storeRead
                     /\ reqs[p].url # EmptyStr
            /\ (IsRedirect(p) /\ Done(p) /\ reqs[p].status # 301)
                  => /\ ~reqs[p].captured
                     /\ reqs[p].status \in {404, 500}
            /\ (IsRedirect(p) /\ Done(p) /\ reqs[p].captured)
                  => /\ reqs[p].status = 301
                     /\ reqs[p].location = reqs[p].url)
    /\ [][(batch' # batch \/ clicks' # clicks) => reqs' = reqs]_vars

\* a redirect answered 301 although its event was dropped, next to a failed one
C9_Witness ==
    \E p, q \in Procs :
        /\ IsRedirect(p) /\ Done(p) /\ reqs[p].dropped /\ reqs[p].status = 301
        /\ IsRedirect(q) /\ Done(q) /\ reqs[q].status = 500

\* p's request has been decided by the limiter
Decided(p) == reqs[p].kind = "health" /\ reqs[p].pc \in {"handler", "done"}

InWindow(p) == now - rl[reqs[p].client].firstAt < timeWindow

\* C10: of the sequential requests of one client within 60 seconds of its
\* first, with a healthy cache, the first 100 are allowed and the 101st is
\* denied with 429.
C10_HundredAllowedThenDenied ==
    (Decided(1) /\ InWindow(1)) =>
        /\ reqs[1].idx <= maxRequests => reqs[1].status # 429
        /\ reqs[1].idx = maxRequests + 1 => reqs[1].status = 429

\* the 101st request denied, some seconds after the first
C10_Witness ==
    /\ Decided(1) /\ InWindow(1)
    /\ now > rl[reqs[1].client].firstAt
    /\ reqs[1].idx = maxRequests + 1
    /\ reqs[1].status = 429

\* p's request went through the limiter of the middleware chain
Limited(p) == reqs[p].idx > 0

\* the limiter let p's request through to its handler
Allowed(p) ==
    /\ Limited(p)
    /\ reqs[p].pc \notin {"rl_get", "rl_set"}
    /\ reqs[p].status # 429

Denied(p) == Limited(p) /\ reqs[p].pc = "done" /\ reqs[p].status = 429

\* C11: the limiter fails open: a request whose counter read or counter
\* write hit a cache error goes on to its handler; no request that met a cache
\* error in the limiter is denied.
C11_LimiterFailsOpen ==
    /\ [](\A p \in Procs : Denied(p) => (~reqs[p].cacheGetErr /\ ~reqs[p].cacheSetErr))
    /\ [][\A p \in Procs :
            /\ (reqs[p].pc = "rl_get" /\ reqs'[p].pc # "rl_get" /\ reqs'[p].cacheGetErr)
                  => (reqs'[p].pc = "rl_set" /\ reqs'[p].status = 0)
            /\ (reqs[p].pc = "rl_set" /\ reqs'[p].pc # "rl_set")
                  => (reqs'[p].pc = "handler" /\ reqs'[p].status = 0)]_vars

\* the stored counter is at maxRequests, and a request that could neither read
\* nor write it has been answered by its handler
C11_Witness ==
    \E p \in Procs :
        /\ reqs[p].kind = "health" /\ Limited(p) /\ Done(p)
        /\ reqs[p].cacheGetErr /\ reqs[p].cacheSetErr
        /\ reqs[p].status \in {200, 503}
        /\ RateLimitKey(reqs[p].client) \in DOMAIN cache
        /\ cache[RateLimitKey(reqs[p].client)].val = Itoa(maxRequests)

\* C12: requests to the redirect route GET /:short_code are outside the rate
\* limiter: none of them is denied with 429.
C12_RedirectsAreNotLimited ==
    \A p \in Procs : IsRedirect(p) => ~Denied(p)

\* C13: rate-limit windows are fixed: the window a client's first request
\* opened ends timeWindow seconds after it was opened, however many allowed
\* requests follow, so no request counted in a window moves the moment at
\* which the window's counter expires.
C13_WindowEndIsFixed ==
    [][\A c \in Clients :
          (RateLimitKey(c) \in DOMAIN cache /\ RateLimitKey(c) \in DOMAIN cache')
              => cache'[RateLimitKey(c)].exp = cache[RateLimitKey(c)].exp]_vars

\* C14: the limiter's read and its write are separate cache operations: the
\* read changes nothing in the cache, and the write stores the count computed
\* from that earlier read whatever the counter holds by then, so that
\* concurrent requests of one client can be allowed on the same count.
C14_ReadThenWriteLosesUpdates ==
    [][\A p \in Procs :
          LET key == RateLimitKey(reqs[p].client)
          IN  /\ (reqs[p].pc = "rl_get" /\ reqs'[p].pc # "rl_get")
                    => /\ cache' = cache
                       /\ (reqs'[p].pc = "rl_set" /\ ~reqs'[p].cacheGetErr /\ key \in DOMAIN cache)
                             => reqs'[p].count = Sscanf(cache[key].val) + 1
              /\ (reqs[p].pc = "rl_set" /\ reqs'[p].pc # "rl_set" /\ ~reqs'[p].cacheSetErr)
                    => /\ key \in DOMAIN cache'
                       /\ cache'[key].val = Itoa(reqs[p].count)]_vars

\* after RequestsBefore allowed requests, requests maxRequests and
\* maxRequests + 1 of the same second have both been allowed with a healthy
\* cache, on the same count, and the counter stands at maxRequests
C14_Witness ==
    \E p, q \in Procs :
        /\ reqs[p].kind = "health" /\ reqs[q].kind = "health"
        /\ reqs[p].client = reqs[q].client
        /\ reqs[p].idx = maxRequests /\ reqs[q].idx = maxRequests + 1
        /\ Allowed(p) /\ Allowed(q)
        /\ ~reqs[p].cacheGetErr /\ ~reqs[p].cacheSetErr
        /\ ~reqs[q].cacheGetErr /\ ~reqs[q].cacheSetErr
        /\ reqs[p].count = maxRequests /\ reqs[q].count = maxRequests
        /\ now - rl[reqs[p].client].firstAt < timeWindow
        /\ cache[RateLimitKey(reqs[p].client)].val = Itoa(maxRequests)

\* shorten call p was refused by validateURL or validateCustomAlias
FailedValidation(r) ==
    /\ r.kind = "shorten"
    /\ r.pc = "done"
    /\ HasPrefix(r.err, ErrInvalidURL) \/ HasPrefix(r.err, ErrInvalidAlias)

\* C15: a shorten call that fails URL or alias validation returns straight
\* from validation: that step changes neither the sequence, the store nor the
\* cache, and the call was never at the existence check, the sequence, the
\* insert or the cache write; only calls with a valid URL and a valid (or no)
\* alias get that far.
C15_ValidationFailsBeforeAnyEffect ==
    /\ [](\A p \in Procs :
            (IsShorten(p) /\ reqs[p].pc \in {"exists", "nextid", "create", "cache"})
                => /\ validateURL(reqs[p].rawURL) = NoErr
                   /\ reqs[p].alias # EmptyStr => validateCustomAlias(reqs[p].alias) = NoErr)
    /\ [][\A p \in Procs :
            (reqs'[p] # reqs[p] /\ FailedValidation(reqs'[p]))
                => /\ Free(p)
                   /\ UNCHANGED <<seq, issued, urls, cache, clicks, eventQueue>>
                   /\ reqs'[p].shortCode = EmptyStr
                   /\ ~reqs'[p].cacheSetErr]_vars

\* one call refused for its URL and one for its alias, next to a stored mapping
C15_Witness ==
    /\ urls # {}
    /\ \E p, q \in Procs :
          /\ FailedValidation(reqs[p]) /\ HasPrefix(reqs[p].err, ErrInvalidURL)
          /\ FailedValidation(reqs[q]) /\ HasPrefix(reqs[q].err, ErrInvalidAlias)
          /\ reqs[p].status = 400 /\ reqs[q].status = 400

\* C16: shorten of "example.com", a URL without a scheme, passes validation
\* with the URL normalized to "https://example.com" and goes on to draw a
\* fresh code.
C16_SchemelessURLIsShortened ==
    [][\A p \in Procs :
          (reqs[p].pc = "bind" /\ reqs[p].rawURL = URL_example /\ reqs'[p] # reqs[p])
              => /\ reqs'[p].pc = "nextid"
                 /\ reqs'[p].url = URL_https_example]_vars

\* the reserved words, and an alias as the rule for custom aliases wants it
ReservedWords == {Str_api, Str_health, Str_admin, Str_www, Str_app, Str_short, Str_url}

AcceptableAlias(alias) ==
    /\ Len(alias) >= 3
    /\ Len(alias) <= 20
    /\ \A i \in 1..Len(alias) : IsLetter(alias[i]) \/ IsDigit(alias[i]) \/ alias[i] \in {"-", "_"}
    /\ ToLower(alias) \notin ReservedWords

\* C17: validateCustomAlias accepts an alias exactly when its length is
\* between 3 and 20, it is made of letters, digits, hyphens and underscores,
\* and its lower-cased form is not a reserved word; a shorten call with any
\* other alias and a valid URL fails with "invalid custom alias" (400), and one
\* with an acceptable alias goes on to the existence check with that alias.
C17_AliasAcceptedExactlyWhenWellFormed ==
    /\ [](\A p \in Procs :
            reqs[p].pc = "bind"
                => (validateCustomAlias(reqs[p].alias) = NoErr <=> AcceptableAlias(reqs[p].alias)))
    /\ [][\A p \in Procs :
            (/\ reqs[p].pc = "bind" /\ reqs'[p] # reqs[p]
             /\ reqs[p].alias # EmptyStr
             /\ BindOK(reqs[p].rawURL) /\ validateURL(reqs[p].rawURL) = NoErr)
                => IF AcceptableAlias(reqs[p].alias)
                   THEN /\ reqs'[p].pc = "exists"
                        /\ reqs'[p].alias = reqs[p].alias
                   ELSE /\ FailedValidation(reqs'[p])
                        /\ HasPrefix(reqs'[p].err, ErrInvalidAlias)
                        /\ reqs'[p].status = 400]_vars

\* a shorten call refused because its alias is a reserved word
C17_Witness ==
    \E p \in Procs :
        /\ FailedValidation(reqs[p])
        /\ reqs[p].err = ErrInvalidAlias \o <<"custom", "alias", "cannot", "be", "a", "reserved", "word">>
        /\ reqs[p].status = 400

\* the substrings no accepted URL contains, and a URL as the rule for URLs
\* wants it; an input that does not parse has neither scheme nor host
ForbiddenSubstrings ==
    { <<"j","a","v","a","s","c","r","i","p","t",":">>, <<"d","a","t","a",":">>,
      <<"f","i","l","e",":">>, <<"f","t","p",":">> }

AcceptableURL(rawURL) ==
    /\ ~Parse(rawURL).err
    /\ Parse(rawURL).Scheme \in {Http, Https}
    /\ Parse(rawURL).Host # EmptyStr
    /\ \A f \in ForbiddenSubstrings : ~Contains(ToLower(rawURL), f)

\* C18: validateURL accepts a raw URL exactly when its scheme is http or
\* https, its host is not empty and its lower-cased text contains none of
\* javascript:, data:, file:, ftp:; a shorten call with any other URL is
\* refused (400), with "invalid URL" whenever the URL got as far as validateURL.
C18_URLAcceptedExactlyWhenSafe ==
    /\ [](\A p \in Procs :
            reqs[p].pc = "bind"
                => (validateURL(reqs[p].rawURL) = NoErr <=> AcceptableURL(reqs[p].rawURL)))
    /\ [][\A p \in Procs :
            (reqs[p].pc = "bind" /\ reqs'[p] # reqs[p])
                => IF AcceptableURL(reqs[p].rawURL)
                   THEN \/ reqs'[p].pc \in {"exists", "nextid"}
                        \/ HasPrefix(reqs'[p].err, ErrInvalidAlias)
                   ELSE /\ reqs'[p].pc = "done"
                        /\ reqs'[p].status = 400
                        /\ BindOK(reqs[p].rawURL) => HasPrefix(reqs'[p].err, ErrInvalidURL)]_vars

\* a URL with an http scheme and a host, refused for a forbidden substring
C18_Witness ==
    \E p \in Procs :
        /\ FailedValidation(reqs[p])
        /\ reqs[p].err = ErrInvalidURL \o <<"potentially", "malicious", "URL", "detected">>
        /\ reqs[p].status = 400

\* the value of a base62 digit, and of a string read as a base-62 number,
\* most-significant digit first
DigitValue(c) == (CHOOSE i \in 1..62 : base62Chars[i] = c) - 1

RECURSIVE decodeBase62(_)
decodeBase62(code) ==
    IF code = <<>> THEN 0
    ELSE 62 * decodeBase62(SubSeq(code, 1, Len(code) - 1)) + DigitValue(code[Len(code)])

\* C19: encodeBase62 maps 0 to "0" and every n > 0 to a non-empty string over
\* 0-9a-zA-Z without a leading "0" that, read as a base-62 number with the
\* most-significant digit first, is n again; having a left inverse, the
\* encoding is injective.
C19_EncodeBase62RoundTrips ==
    \A p \in Procs :
        (reqs[p].kind = "encode" /\ Done(p)) =>
            /\ Len(reqs[p].shortCode) >= 1
            /\ \A i \in 1..Len(reqs[p].shortCode) : reqs[p].shortCode[i] \in Range(base62Chars)
            /\ reqs[p].nextID = 0 => reqs[p].shortCode = <<"0">>
            /\ reqs[p].nextID > 0 => reqs[p].shortCode[1] # "0"
            /\ decodeBase62(reqs[p].shortCode) = reqs[p].nextID

\* 62 * 62 has been encoded as "100"
C19_Witness ==
    \E p \in Procs :
        /\ reqs[p].kind = "encode" /\ Done(p)
        /\ reqs[p].nextID = 62 * 62
        /\ reqs[p].shortCode = <<"1", "0", "0">>

\* the click events persisted for code
PersistedClicks(code) == Cardinality({i \in 1..Len(clicks) : clicks[i].short_code = code})

\* C20: GetURLStats answers NotFound (404) only for a code without a mapping
\* and, the store working, for every such code; for a mapped code it returns
\* the mapping's targetUrl and createdAt with clickCount the number of click
\* events persisted for the code when the query runs, whatever is queued,
\* batched or was dropped; its only other answer is the store's failure (500).
C20_StatsCountPersistedClicks ==
    [][\A p \in Procs :
          (reqs[p].kind = "stats" /\ reqs[p].pc = "stats" /\ reqs'[p].pc = "done")
              => /\ reqs'[p].status \in {200, 404, 500}
                 /\ reqs'[p].status = 500 => reqs'[p].err = ErrGetStats \o PqDown
                 /\ reqs'[p].status = 404 => (~Mapped(reqs[p].shortCode) /\ reqs'[p].err = ErrNotFound)
                 /\ reqs'[p].status = 200
                       => /\ Mapped(reqs[p].shortCode)
                          /\ reqs'[p].shortCode = reqs[p].shortCode
                          /\ reqs'[p].url = StoreURL(reqs[p].shortCode)
                          /\ \E u \in urls : /\ u.short_code = reqs[p].shortCode
                                              /\ reqs'[p].createdAt = u.created_at
                          /\ reqs'[p].clickCount = PersistedClicks(reqs[p].shortCode)
                 /\ ~Mapped(reqs[p].shortCode) => reqs'[p].status # 200
                 /\ UNCHANGED <<urls, clicks, eventQueue, batch, cache, seq>>]_vars

\* statistics report the one persisted click while another event waits in the
\* batch and a third in the queue
C20_Witness ==
    \E p \in Procs :
        /\ reqs[p].kind = "stats" /\ Done(p) /\ reqs[p].status = 200
        /\ reqs[p].clickCount = 1
        /\ PersistedClicks(reqs[p].shortCode) = 1
        /\ \E i \in 1..Len(batch) : batch[i].ShortCode = reqs[p].shortCode
        /\ \E i \in 1..Len(eventQueue) : eventQueue[i].ShortCode = reqs[p].shortCode

\* C21: the time persisted for a click is the time at which capture built the
\* event: when the worker receives an event and the flush of that step
\* persists the whole batch, the last row, which is that event's, carries the
\* event's Timestamp.
C21_ClickTimeIsCaptureTime ==
    [][(/\ eventQueue # <<>>
        /\ eventQueue' = Tail(eventQueue)
        /\ Len(clicks') = Len(clicks) + Len(batch) + 1)
          => clicks'[Len(clicks')].clicked_at = Head(eventQueue).Timestamp]_vars

\* C22: a shorten call with a custom alias that passed validation is never
\* refused by the store for the length of its code.
C22_ValidAliasFitsTheStore ==
    \A p \in Procs :
        (IsShorten(p) /\ reqs[p].isCustom) => ~Contains(reqs[p].err, PqTooLong)

\* C23: a resolve that finds its code in the cache returns the cached target
\* without reading the store, and a shorten whose cache write worked leaves
\* its mapping in the cache, so that a resolve that follows before any
\* eviction is a hit.
C23_CacheHitSkipsTheStore ==
    /\ [](\A p \in Procs :
            (IsRedirect(p) /\ reqs[p].hit)
                => (~reqs[p].storeRead /\ reqs[p].pc \notin {"dbget", "cacheset"}))
    /\ [][\A p \in Procs :
            /\ (/\ IsRedirect(p) /\ reqs[p].pc = "cacheget" /\ reqs'[p].pc # "cacheget"
                 /\ reqs[p].shortCode \in DOMAIN cache /\ ~reqs'[p].cacheGetErr)
                  => /\ reqs'[p].pc = "capture"
                     /\ reqs'[p].hit
                     /\ reqs'[p].url = cache[reqs[p].shortCode].val
            /\ (/\ IsShorten(p) /\ reqs[p].pc = "cache" /\ reqs'[p].pc = "done"
                 /\ ~reqs'[p].cacheSetErr)
                  => /\ reqs[p].shortCode \in DOMAIN cache'
                     /\ cache'[reqs[p].shortCode].val = reqs[p].url]_vars

\* a shorten that cached its mapping, and a resolve of the new code answered
\* from the cache without a store read
C23_Witness ==
    \E p, q \in Procs :
        /\ IsShorten(p) /\ Done(p) /\ reqs[p].status = 201 /\ ~reqs[p].cacheSetErr
        /\ IsRedirect(q) /\ Done(q) /\ reqs[q].status = 301
        /\ reqs[q].shortCode = reqs[p].shortCode
        /\ reqs[q].hit /\ ~reqs[q].storeRead
        /\ reqs[q].location = reqs[p].url

\* C24: every entry the cache holds under a short code is the targetUrl of
\* the store's mapping for that code: no entry for a code without a mapping,
\* none with another URL.
C24_CacheAgreesWithStore ==
    \A code \in DOMAIN cache :
        /\ Mapped(code)
        /\ cache[code].val = StoreURL(code)

\* the cache holds the mapping of a code for which another shorten call has
\* just failed at the insert
C24_Witness ==
    \E p \in Procs :
        /\ IsShorten(p) /\ Done(p) /\ HasPrefix(reqs[p].err, ErrCreate \o PqUnique)
        /\ reqs[p].shortCode \in DOMAIN cache
        /\ cache[reqs[p].shortCode].val = StoreURL(reqs[p].shortCode)
        /\ reqs[p].url # StoreURL(reqs[p].shortCode)

\* the worker takes the head of the queue in this step
Receives == eventQueue # <<>> /\ eventQueue' = Tail(eventQueue)

\* C25: the worker flushes exactly when the batch reaches batchSize (100 in
\* the code) or when the timer fires on a non-empty batch: a receive that
\* fills the batch empties it, any other receive only appends and writes
\* nothing, every write to the store leaves the batch empty, a timer tick on
\* an empty batch writes nothing, and the batch stays below batchSize between
\* steps.
C25_FlushOnSizeOrTimer ==
    /\ [](Len(batch) < batchSize)
    /\ [][
          /\ Receives =>
                (IF Len(batch) + 1 >= batchSize
                 THEN batch' = <<>>
                 ELSE /\ Len(batch') = Len(batch) + 1
                      /\ SubSeq(batch', 1, Len(batch)) = batch
                      /\ batch'[Len(batch')].ShortCode = Head(eventQueue).ShortCode
                      /\ clicks' = clicks)
          /\ (clicks' # clicks) =>
                (/\ batch' = <<>>
                 /\ \/ Receives /\ Len(batch) + 1 >= batchSize
                    \/ eventQueue' = eventQueue /\ batch # <<>>)
          /\ (batch = <<>> /\ ~Receives) => (clicks' = clicks /\ batch' = <<>>)
          /\ (batch # <<>> /\ batch' = <<>> /\ ~Receives) => (eventQueue' = eventQueue)
       ]_vars

\* one event has been flushed and persisted, and the next event waits alone
\* in the batch, below batchSize
C25_Witness ==
    /\ Len(clicks) = 1
    /\ Len(batch) = 1
    /\ eventQueue = <<>>

\* the batches the worker's next step can hand to flushBatch: the batch as it
\* is (timer), or the batch with the head of the queue appended (receive)
NextBatches ==
    {batch} \cup
    (IF eventQueue = <<>> THEN {}
     ELSE {Append(batch, [ShortCode |-> Head(eventQueue).ShortCode,
                          IPAddress |-> Head(eventQueue).IPAddress,
                          UserAgent |-> Head(eventQueue).UserAgent])})

\* positions of b whose write succeeds when the store is down at downAt
KeptAt(b, downAt) ==
    {i \in 1..Len(b) : i \notin downAt /\ RecordClickErr(urls, b[i], TRUE) = NoErr}

\* the rows of the events at KeptAt, in batch order
KeptRows(b, downAt) ==
    LET keep == KeptAt(b, downAt)
        nth(k) == CHOOSE i \in keep : Cardinality({j \in keep : j < i}) = k - 1
    IN  [k \in 1..Cardinality(keep) |->
            [short_code |-> b[nth(k)].ShortCode, ip_address |-> b[nth(k)].IPAddress,
             user_agent |-> b[nth(k)].UserAgent, clicked_at |-> now]]

\* C26: a failure to persist one event of a batch stops neither the flush nor
\* the worker, and the failed event is not retried: whatever positions fail,
\* flushBatch persists exactly the other events of the batch, in order; a
\* step that flushes leaves the batch empty and puts nothing back on the
\* queue, and what it wrote is the kept part of the batch it flushed.
C26_FlushSurvivesFailures ==
    /\ [](\A b \in NextBatches : \A downAt \in SUBSET (1..Len(b)) :
            flushBatch(b, downAt, urls, clicks) = clicks \o KeptRows(b, downAt))
    /\ [][
          ((clicks' # clicks) \/ (batch # <<>> /\ batch' = <<>>) \/ (Receives /\ batch' = <<>>)) =>
              (/\ batch' = <<>>
               /\ (eventQueue' = eventQueue \/ Receives)
               /\ \E b \in NextBatches : \E downAt \in SUBSET (1..Len(b)) :
                     clicks' = clicks \o KeptRows(b, downAt))
       ]_vars

\* the next receive fills the batch; its first event is refused by the store
\* (address "unknown" is no INET value), its second is persisted by the same
\* flush
C26_Witness ==
    /\ eventQueue # <<>>
    /\ Len(batch) = batchSize - 1
    /\ \E b \in NextBatches :
          /\ Len(b) = batchSize
          /\ RecordClickErr(urls, b[1], TRUE) # NoErr
          /\ RecordClickErr(urls, b[batchSize], TRUE) = NoErr
          /\ Len(flushBatch(b, {}, urls, clicks)) = Len(clicks) + batchSize - 1
          /\ flushBatch(b, {}, urls, clicks)[Len(clicks) + 1].ip_address = b[batchSize].IPAddress

\* request p obtains its sequence value in this step
TakesID(p) == reqs[p].pc = "nextid" /\ reqs'[p].pc = "create"

\* C27: a shorten call without a custom alias consumes exactly one sequence
\* value, and a value consumed by a call whose insert fails is never issued
\* again: the values issued are strictly increasing, the sequence moves only
\* in the step in which one call obtains its value, by one, and that value is
\* the call's; a failed insert leaves the sequence where it is, and no two
\* calls ever hold the same value.
C27_SequenceValuesAreNeverReused ==
    /\ [](/\ \A i, j \in 1..Len(issued) : i < j => issued[i] < issued[j]
          /\ \A i \in 1..Len(issued) : issued[i] <= seq
          /\ \A q \in Procs :
                (IsShorten(q) /\ ~reqs[q].isCustom /\ reqs[q].pc \in {"create", "cache"}) =>
                    Cardinality({i \in 1..Len(issued) : issued[i] = reqs[q].nextID}) = 1
          /\ \A q1, q2 \in Procs :
                (q1 # q2 /\ reqs[q1].nextID > 0 /\ reqs[q1].nextID = reqs[q2].nextID) => FALSE)
    /\ [][
          /\ seq' >= seq
          /\ \A q \in Procs : TakesID(q) =>
                /\ seq' = seq + 1
                /\ reqs'[q].nextID = seq'
                /\ issued' = Append(issued, seq')
          /\ (seq' # seq \/ issued' # issued) => \E q \in Procs : TakesID(q)
          /\ \A q \in Procs :
                (reqs[q].pc = "create" /\ reqs'[q].pc = "done") =>
                    (seq' = seq /\ issued' = issued)
       ]_vars

\* the call that was given value 1 failed at the insert, and the next call
\* was given value 2
C27_Witness ==
    \E q1, q2 \in Procs :
        /\ q1 # q2
        /\ IsShorten(q1) /\ Done(q1) /\ ~reqs[q1].isCustom
        /\ HasPrefix(reqs[q1].err, ErrCreate)
        /\ reqs[q1].shortCode = encodeBase62(1)
        /\ IsShorten(q2) /\ reqs[q2].nextID = 2
        /\ issued = <<1, 2>>

\* the limiter denies p's request in this step
Denies(p) == reqs[p].pc = "rl_get" /\ reqs'[p].pc = "done" /\ reqs'[p].status = 429

\* C28: a request denied by the rate limiter leaves the client's stored
\* counter and its TTL unchanged and never reaches the request handler: the
\* denying step changes nothing in the cache, the sequence, the store, the
\* analytics queue or the batch; a denied request has read nothing, captured
\* nothing and carries no redirect target; and the only step that follows
\* for its slot is the arrival of a new request.
C28_DenialHasNoEffect ==
    /\ [](\A p \in Procs : Denied(p) =>
            /\ ~reqs[p].hit /\ ~reqs[p].storeRead /\ ~reqs[p].captured
            /\ reqs[p].location = EmptyStr
            /\ reqs[p].count > maxRequests)
    /\ [][\A p \in Procs :
            /\ Denies(p) =>
                  UNCHANGED <<cache, seq, urls, clicks, eventQueue, batch, issued>>
            /\ (Denied(p) /\ reqs'[p] # reqs[p]) => reqs'[p].pc = "rl_get"
         ]_vars

\* a request was denied while the stored counter stands at maxRequests, with
\* the TTL the last allowed request gave it
C28_Witness ==
    \E p \in Procs :
        /\ Denied(p)
        /\ RateLimitKey(reqs[p].client) \in DOMAIN cache
        /\ cache[RateLimitKey(reqs[p].client)].val = Itoa(maxRequests)
        /\ cache[RateLimitKey(reqs[p].client)].exp = now + timeWindow

\* C29: a storage read error in the rate limiter does not start a new
\* window: a request whose counter read failed while the client's key exists
\* leaves the stored counter and its expiry as they are.
C29_ReadErrorKeepsTheCount ==
    [][\A p \in Procs :
          LET key == RateLimitKey(reqs[p].client)
          IN  (/\ reqs[p].pc = "rl_set"
               /\ reqs'[p].pc = "handler"
               /\ reqs[p].cacheGetErr
               /\ key \in DOMAIN cache) =>
                  (key \in DOMAIN cache' /\ cache'[key] = cache[key])
      ]_vars

\* C30: with the worker scheduled and the flush timer firing, every event
\* that capture enqueued is eventually handed to the store, even when fewer
\* than batchSize events ever arrive: the queue is first-in first-out and
\* either runs empty again and again or the worker receives from it again
\* and again, so every queued event reaches the batch; and a batch that holds
\* events, however few, is eventually flushed.
C30_EveryEventIsEventuallyFlushed ==
    /\ ([]<>(eventQueue = <<>>)) \/ ([]<><<Receives>>_vars)
    /\ (eventQueue # <<>>) ~> (Len(eventQueue) < QueueCap)
    /\ (batch # <<>>) ~> (batch = <<>>)

\* one event, fewer than batchSize, waits in the batch and nothing is queued
\* behind it
C30_Witness ==
    /\ Len(batch) = 1
    /\ Len(batch) < batchSize
    /\ eventQueue = <<>>
    /\ \A p \in Procs : Free(p)
    /\ clicks = <<>>

\* the client addresses of a sequence of events, of batch items or of rows
Addresses(es) ==
    [i \in 1..Len(es) |->
        IF "IPAddress" \in DOMAIN es[i] THEN es[i].IPAddress ELSE es[i].ip_address]

\* a is b with some of its items left out, the others in b's order
RECURSIVE IsSubsequence(_, _)
IsSubsequence(a, b) ==
    IF a = <<>> THEN TRUE
    ELSE IF b = <<>> THEN FALSE
    ELSE IF Head(a) = Head(b) THEN IsSubsequence(Tail(a), Tail(b))
    ELSE IsSubsequence(a, Tail(b))

\* the batch the worker hands to the store in this step, if it flushes
Flushed ==
    IF Receives THEN Append(batch, Head(eventQueue)) ELSE batch

\* C31: the worker hands click events to the store in the order in which
\* they were enqueued, across flush boundaries as well: capture appends at
\* the tail of the queue, the worker takes the head of the queue and appends
\* it at the end of the batch, and a flush writes behind the rows already
\* there the events of the batch in batch order (less those the store
\* refused).
C31_EventsAreStoredInCaptureOrder ==
    [][
       /\ (eventQueue' # eventQueue /\ ~Receives) =>
             (Len(eventQueue') = Len(eventQueue) + 1
              /\ SubSeq(eventQueue', 1, Len(eventQueue)) = eventQueue)
       /\ (Receives /\ batch' # <<>>) =>
             Addresses(batch') = Append(Addresses(batch), Head(eventQueue).IPAddress)
       /\ (batch' # batch /\ ~Receives) => batch' = <<>>
       /\ Len(clicks') >= Len(clicks)
       /\ SubSeq(clicks', 1, Len(clicks)) = clicks
       /\ IsSubsequence(Addresses(SubSeq(clicks', Len(clicks) + 1, Len(clicks'))),
                        Addresses(Flushed))
    ]_vars

\* two events of different clients were captured one after the other and
\* both are persisted
C31_Witness ==
    /\ Len(clicks) = 2
    /\ clicks[1].ip_address # clicks[2].ip_address
    /\ eventQueue = <<>> /\ batch = <<>>

\* C32: a click event whose address was sanitized to "unknown" is accepted by
\* the store and persisted by the flush like any other event of an existing
\* code: when the store is up, the flush of a batch adds one row for each of
\* its events that carries "unknown" and names a stored code.
C32_UnknownAddressIsPersisted ==
    \A b \in NextBatches :
        LET new == SubSeq(flushBatch(b, {}, urls, clicks), Len(clicks) + 1,
                          Len(flushBatch(b, {}, urls, clicks)))
            unknownIn(es) == {i \in 1..Len(es) : Addresses(es)[i] = Str_unknown}
        IN  Cardinality(unknownIn(new)) =
                Cardinality({i \in unknownIn(b) : Exists(urls, b[i].ShortCode)})

\* C33: resolve(code) returns a target URL only if the store holds a mapping
\* for code, and the value returned is that mapping's target; a code without
\* a mapping is answered NotFound whatever the shared cache holds, the
\* limiter's "rate_limit:<identity>" counters included.
C33_ResolveAnswersOnlyFromMappings ==
    \A p \in Procs :
        (IsRedirect(p) /\ Done(p) /\ reqs[p].status # 429) =>
            IF Mapped(reqs[p].shortCode)
            THEN reqs[p].status \in {301, 500}
                 /\ (reqs[p].status = 301 => reqs[p].location = StoreURL(reqs[p].shortCode))
            ELSE reqs[p].status \in {404, 500} /\ reqs[p].location = EmptyStr

\* the events that wait for the store, oldest first: the worker's batch, then
\* the queue
Waiting == Addresses(batch) \o Addresses(eventQueue)

\* the worker flushes in this step
Flushes == batch' = <<>> /\ (batch # <<>> \/ Receives)

\* C34: every event accepted by capture is in exactly one of the queue, the
\* batch, or already handed to the store, and is handed to the store exactly
\* once: an accepted capture adds its event to the waiting events and a
\* dropped one adds nothing; a receive moves the head of the queue into the
\* batch and changes neither the waiting events nor the rows; a flush takes
\* the whole batch off the waiting events and writes at most one row for
\* each of its events; no other step adds a row or removes a waiting event.
C34_EachEventIsHandedOverOnce ==
    [][
       /\ \A p \in Procs :
             (reqs[p].pc = "capture" /\ reqs'[p].pc = "done") =>
                 /\ clicks' = clicks
                 /\ IF reqs'[p].dropped
                    THEN Waiting' = Waiting
                    ELSE Waiting' = Append(Waiting, sanitizeIPAddress(
                                        getClientIP(reqs[p].xff, EmptyStr, IP_1)))
       /\ IF Flushes
          THEN /\ Len(Flushed) >= 1
               /\ Waiting' = SubSeq(Waiting, Len(Flushed) + 1, Len(Waiting))
               /\ SubSeq(clicks', 1, Len(clicks)) = clicks
               /\ Len(clicks') - Len(clicks) \in 0..Len(Flushed)
               /\ IsSubsequence(Addresses(SubSeq(clicks', Len(clicks) + 1, Len(clicks'))),
                                Addresses(Flushed))
          ELSE /\ clicks' = clicks
               /\ \/ Waiting' = Waiting
                  \/ /\ Len(Waiting') = Len(Waiting) + 1
                     /\ SubSeq(Waiting', 1, Len(Waiting)) = Waiting
                     /\ \E p \in Procs : reqs[p].pc = "capture" /\ reqs'[p].pc = "done"
    ]_vars

\* one event is persisted, the next waits in the batch and a third in the
\* queue
C34_Witness ==
    /\ Len(clicks) = 1
    /\ Len(batch) = 1
    /\ Len(eventQueue) = 1

\* the limiter's keys
RateLimitKeys == {RateLimitKey(c) : c \in Clients}

\* every stored counter is the decimal form of an integer in 1..maxRequests
CountersInRange ==
    \A key \in RateLimitKeys \cap DOMAIN cache :
        /\ Sscanf(cache[key].val) \in 1..maxRequests
        /\ cache[key].val = Itoa(Sscanf(cache[key].val))

\* request p reads, in this step, a stored counter that stands at maxRequests
ReadsFullCounter(p) ==
    /\ reqs[p].pc = "rl_get"
    /\ reqs'[p].pc # "rl_get"
    /\ RateLimitKey(reqs[p].client) \in DOMAIN cache
    /\ cache[RateLimitKey(reqs[p].client)].val = Itoa(maxRequests)

\* C35, as stated: the value stored under a client's rate-limit key is an
\* integer between 1 and 100, the limiter never writes a count above the
\* threshold, and once the stored count is 100 every further request of
\* that identity is denied until the key expires.
C35_FullCounterDeniesEveryRequest ==
    /\ []CountersInRange
    /\ [][\A p \in Procs : ReadsFullCounter(p) => Denies(p)]_vars

\* C35, amended: the value stored under a client's rate-limit key is an
\* integer between 1 and 100, the limiter never writes a count above the
\* threshold, and every request whose counter read succeeds and finds 100
\* is denied and leaves the counter as it is; a request whose counter read
\* fails is let through (the limiter fails open).
C35_FullCounterDeniesEveryReader ==
    /\ []CountersInRange
    /\ [][\A p \in Procs :
            /\ (ReadsFullCounter(p) /\ ~reqs'[p].cacheGetErr) =>
                  (Denies(p) /\ cache' = cache)
            /\ (ReadsFullCounter(p) /\ reqs'[p].cacheGetErr) => reqs'[p].pc = "rl_set"
         ]_vars

\* the counter stands at maxRequests: the request that wrote it is at its
\* handler and a later request of the same client was denied
C35_Witness ==
    \E p, q \in Procs :
        /\ p # q
        /\ Denied(p)
        /\ reqs[q].pc = "handler" /\ reqs[q].count = maxRequests /\ ~reqs[q].cacheSetErr
        /\ reqs[q].client = reqs[p].client
        /\ cache[RateLimitKey(reqs[p].client)].val = Itoa(maxRequests)

====
